---------------------------- MODULE Spec2Model ----------------------------
(***************************************************************************)
(* A model of pysisso's SISSO.out parser (src/pysisso/outputs.py):         *)
(*   - SISSODescriptor._decode_function / evaluate  (notation decoder),    *)
(*   - SISSOModel.from_string / predict,                                   *)
(*   - SISSOParams.from_string,                                            *)
(*   - SISSOOut.from_file and the model / models accessors.                *)
(*                                                                         *)
(* Text is modelled at two grains.  A descriptor notation is a sequence of *)
(* one-character strings, so that str.replace, slicing and the character   *)
(* scan of _decode_function are computed as Python computes them.  A       *)
(* report is the sequence of the pieces that string.split("\n") yields;    *)
(* every piece but the last is followed by a newline in the text.          *)
(***************************************************************************)
EXTENDS Integers, Sequences, FiniteSets, TLC

VARIABLES
    \* ---- SISSODescriptor._decode_function / evaluate
    expr,                \* the expression the notation was written from (or NoExpr)
    string,              \* the notation handed to _decode_function
    replaced_string,     \* the marker string
    features_in_string,  \* list of {featname, istart, iend}
    inputs,              \* distinct feature names, first seen first
    evalstring,          \* the Python expression text
    df,                  \* the table handed to evaluate
    dvalue,              \* result of evaluate(df)
    dpc,                 \* position in the decoder
    derr,                \* exception raised by the decoder ("" when none)
    \* ---- SISSOModel.from_string / predict
    lines,               \* string.split("\n") of the block handed to from_string
    iline,               \* the line the loop of from_string is at
    sisso_model,         \* the locals of from_string, then the Model returned
    mpc,                 \* position in from_string / predict
    pdf,                 \* the table handed to predict
    pout,                \* what predict returns
    \* ---- SISSOParams.from_string
    ptext,               \* string.split("\n") of the text handed to from_string
    iparam,              \* the entry of PARAMS the loop is at
    kwargs,              \* the fields set so far
    ppc,                 \* position in from_string
    perr,                \* exception raised by from_string ("" when none)
    \* ---- SISSOOut.from_file and the accessors
    report,              \* string.split("\n") of the file's text
    allow_unfinished,    \* the argument of from_file
    params,              \* the fields of the SISSOParams built
    match,               \* the iteration strings found by re.findall
    iterations,          \* the list of SISSOIteration built so far
    version,             \* the SISSOVersion built
    cpu_time,            \* the total time read
    opc,                 \* position in from_file / the accessor called
    oerr,                \* exception raised ("" when none)
    got,                 \* what the accessor returned
    \* ---- SISSOIteration.from_string
    istring,             \* string.split("\n") of the block handed to from_string
    iteration,           \* the locals of from_string, then the Iteration returned
    ipc,                 \* position in from_string
    ierr,                \* exception raised ("" when none)
    \* ---- several calls of SISSOOut.from_file at once
    files,               \* the file system: path -> string.split("\n") of the text
    cfile,               \* per call: the filepath argument
    cflag,               \* per call: the allow_unfinished argument
    cstring,             \* per call: the local string read from the file
    cresult,             \* per call: params, iterations, version, cpu_time
    cpc,                 \* per call: position in from_file
    cerr,                \* per call: exception raised ("" when none)
    \* ---- SISSORegressor.fit (src/pysisso/sklearn.py)
    arg_run_dir,         \* the run_dir argument the regressor was constructed with
    run_dir,             \* self.run_dir
    clean_run_dir,       \* self.clean_run_dir
    dirs,                \* the directories that exist
    fit_dirs,            \* the directory each call of fit ran SISSO in, and whether
                         \* that call created it
    fpc                  \* position in fit

dvars == <<expr, string, replaced_string, features_in_string, inputs,
           evalstring, df, dvalue, dpc, derr>>

mvars == <<lines, iline, sisso_model, mpc, pdf, pout>>

pvars == <<ptext, iparam, kwargs, ppc, perr>>

ovars == <<report, allow_unfinished, params, match, iterations, version, cpu_time,
           opc, oerr, got>>

ivars == <<istring, iteration, ipc, ierr>>

cvars == <<files, cfile, cflag, cstring, cresult, cpc, cerr>>

fvars == <<arg_run_dir, run_dir, clean_run_dir, dirs, fit_dirs, fpc>>

\* the machines of the second half of the module
evars == <<ivars, cvars, fvars>>

vars == <<dvars, mvars, pvars, ovars, evars>>

\* what the decoder leaves alone, what from_string / predict leave alone
notD == <<mvars, pvars, ovars, evars>>
notM == <<dvars, pvars, ovars, evars>>
notP == <<dvars, mvars, ovars, evars>>
notO == <<dvars, mvars, pvars, evars>>
notI == <<dvars, mvars, pvars, ovars, cvars, fvars>>
notC == <<dvars, mvars, pvars, ovars, ivars, fvars>>
notF == <<dvars, mvars, pvars, ovars, ivars, cvars>>

\* no expression, and no value yet
NoExpr == [t |-> "none"]
NoValue == [k |-> "none"]

-----------------------------------------------------------------------------
(* Python string primitives over sequences of characters.                  *)

\* s[a:b] for 0 <= a <= b <= len(s)
Slice(s, a, b) == SubSeq(s, a + 1, b)

\* s[i:i+len(op)] == op, i 0-based
MatchAt(s, i, op) ==
    /\ i + Len(op) <= Len(s)
    /\ \A k \in 1..Len(op) : s[i + k] = op[k]

RECURSIVE ReplaceFrom(_, _, _, _)
ReplaceFrom(s, i, old, new) ==
    IF i >= Len(s) THEN <<>>
    ELSE IF MatchAt(s, i, old)
         THEN new \o ReplaceFrom(s, i + Len(old), old, new)
         ELSE <<s[i + 1]>> \o ReplaceFrom(s, i + 1, old, new)

\* str.replace(old, new) for a non-empty old: leftmost, non-overlapping
StrReplace(s, old, new) == ReplaceFrom(s, 0, old, new)

Hashes(n) == [k \in 1..n |-> "#"]

-----------------------------------------------------------------------------
(* SISSODescriptor._decode_function                                        *)

\* spell a token as its characters
Ch(t) ==
    CASE t = "exp(-" -> <<"e", "x", "p", "(", "-">>
      [] t = "exp("  -> <<"e", "x", "p", "(">>
      [] t = "sin("  -> <<"s", "i", "n", "(">>
      [] t = "cos("  -> <<"c", "o", "s", "(">>
      [] t = "sqrt(" -> <<"s", "q", "r", "t", "(">>
      [] t = "cbrt(" -> <<"c", "b", "r", "t", "(">>
      [] t = "log("  -> <<"l", "o", "g", "(">>
      [] t = "abs("  -> <<"a", "b", "s", "(">>
      [] t = "scd("  -> <<"s", "c", "d", "(">>
      [] t = ")^-1"  -> <<")", "^", "-", "1">>
      [] t = ")^2"   -> <<")", "^", "2">>
      [] t = ")^3"   -> <<")", "^", "3">>
      [] t = ")^6"   -> <<")", "^", "6">>
      [] t = ")**-1" -> <<")", "*", "*", "-", "1">>
      [] t = ")**2"  -> <<")", "*", "*", "2">>
      [] t = ")**3"  -> <<")", "*", "*", "3">>
      [] t = ")**6"  -> <<")", "*", "*", "6">>
      [] t = "np."   -> <<"n", "p", ".">>
      [] t = "df['"  -> <<"d", "f", "[", "'">>
      [] t = "']"    -> <<"'", "]">>
      [] OTHER       -> <<t>>

\* a slip in the order of lines 110-130: the one-character tokens first
OPERATORS_REPLACEMENT_ShortFirst ==
    <<Ch("+"), Ch("-"), Ch("*"), Ch("/"), Ch("("), Ch(")"),
      Ch("exp(-"), Ch("exp("), Ch("sin("), Ch("cos("), Ch("sqrt("), Ch("cbrt("),
      Ch("log("), Ch("abs("), Ch("scd("), Ch(")^-1"), Ch(")^2"), Ch(")^3"),
      Ch(")^6")>>

OPERATORS_REPLACEMENT ==
    <<Ch("exp(-"), Ch("exp("), Ch("sin("), Ch("cos("), Ch("sqrt("), Ch("cbrt("),
      Ch("log("), Ch("abs("), Ch("scd("), Ch(")^-1"), Ch(")^2"), Ch(")^3"),
      Ch(")^6"), Ch("+"), Ch("-"), Ch("*"), Ch("/"), Ch("("), Ch(")")>>

\* for op in OPERATORS_REPLACEMENT: replaced_string = replaced_string.replace(op, "#"*len(op))
RECURSIVE ReplaceOps(_, _)
ReplaceOps(s, ops) ==
    IF ops = <<>> THEN s
    ELSE ReplaceOps(StrReplace(s, Head(ops), Hashes(Len(Head(ops)))), Tail(ops))

ReplacedString(s) == ReplaceOps(s, OPERATORS_REPLACEMENT)

\* the test of line 138; indexing an empty string raises IndexError
CheckMarkers(rs) ==
    IF rs = <<>> THEN "IndexError"
    ELSE IF rs[1] # "#" \/ rs[Len(rs)] # "#" THEN "ValueError"
    ELSE ""

\* a slip in line 148: the name appended to inputs without the test
\* "featname not in inputs"
RECURSIVE ScanFrom_Untested(_, _, _)
ScanFrom_Untested(rs, ichar, st) ==
    IF ichar >= Len(rs) THEN st
    ELSE IF st.in_feature_word /\ rs[ichar + 1] = "#"
    THEN ScanFrom_Untested(rs, ichar + 1,
             [in_feature_word |-> FALSE,
              ichar_start |-> st.ichar_start,
              inputs |-> Append(st.inputs, Slice(rs, st.ichar_start, ichar)),
              features_in_string |->
                  Append(st.features_in_string,
                         [featname |-> Slice(rs, st.ichar_start, ichar),
                          istart |-> st.ichar_start, iend |-> ichar])])
    ELSE IF ~st.in_feature_word /\ rs[ichar + 1] # "#"
    THEN ScanFrom_Untested(rs, ichar + 1,
             [st EXCEPT !.in_feature_word = TRUE, !.ichar_start = ichar])
    ELSE ScanFrom_Untested(rs, ichar + 1, st)

\* the character loop of lines 144-155, from character ichar (0-based) on;
\* st = [in_feature_word, ichar_start, inputs, features_in_string]
RECURSIVE ScanFrom(_, _, _)
ScanFrom(rs, ichar, st) ==
    IF ichar >= Len(rs) THEN st
    ELSE LET char == rs[ichar + 1] IN
         IF st.in_feature_word /\ char = "#"
         THEN LET featname == Slice(rs, st.ichar_start, ichar) IN
              ScanFrom(rs, ichar + 1,
                  [in_feature_word |-> FALSE,
                   ichar_start |-> st.ichar_start,
                   inputs |-> IF \E k \in 1..Len(st.inputs) : st.inputs[k] = featname
                              THEN st.inputs ELSE Append(st.inputs, featname),
                   features_in_string |->
                       Append(st.features_in_string,
                              [featname |-> featname, istart |-> st.ichar_start,
                               iend |-> ichar])])
         ELSE IF ~st.in_feature_word /\ char # "#"
         THEN ScanFrom(rs, ichar + 1,
                  [st EXCEPT !.in_feature_word = TRUE, !.ichar_start = ichar])
         ELSE ScanFrom(rs, ichar + 1, st)

ScanFeatures(rs) ==
    ScanFrom(rs, 0, [in_feature_word |-> FALSE, ichar_start |-> 0,
                     inputs |-> <<>>, features_in_string |-> <<>>])

\* a slip in line 164: the text after the last feature left out
RECURSIVE FormatFrom_NoTail(_, _, _, _)
FormatFrom_NoTail(s, fs, k, prev_ichar) ==
    IF k > Len(fs) THEN <<>>
    ELSE Slice(s, prev_ichar, fs[k].istart)
         \o Ch("df['") \o fs[k].featname \o Ch("']")
         \o FormatFrom_NoTail(s, fs, k + 1, fs[k].iend)

\* lines 158-165: the text between the features, each feature as df['name']
RECURSIVE FormatFrom(_, _, _, _)
FormatFrom(s, fs, k, prev_ichar) ==
    IF k > Len(fs) THEN Slice(s, prev_ichar, Len(s))
    ELSE Slice(s, prev_ichar, fs[k].istart)
         \o Ch("df['") \o fs[k].featname \o Ch("']")
         \o FormatFrom(s, fs, k + 1, fs[k].iend)

FormatEvalstring(s, fs) == FormatFrom(s, fs, 1, 0)

\* a slip in the table of lines 168-178: the cube written as a square
NumpyReplacements_CubeAsSquare ==
    <<<<Ch("sin("), Ch("np.") \o Ch("sin(")>>,
      <<Ch("cos("), Ch("np.") \o Ch("cos(")>>,
      <<Ch("exp("), Ch("np.") \o Ch("exp(")>>,
      <<Ch("log("), Ch("np.") \o Ch("log(")>>,
      <<Ch("sqrt("), Ch("np.") \o Ch("sqrt(")>>,
      <<Ch("cbrt("), Ch("np.") \o Ch("cbrt(")>>,
      <<Ch("abs("), Ch("np.") \o Ch("abs(")>>,
      <<Ch(")^2"), Ch(")**2")>>,
      <<Ch(")^3"), Ch(")**2")>>,
      <<Ch(")^6"), Ch(")**6")>>,
      <<Ch(")^-1"), Ch(")**-1")>>>>

\* lines 168-178
NumpyReplacements ==
    <<<<Ch("sin("), Ch("np.") \o Ch("sin(")>>,
      <<Ch("cos("), Ch("np.") \o Ch("cos(")>>,
      <<Ch("exp("), Ch("np.") \o Ch("exp(")>>,
      <<Ch("log("), Ch("np.") \o Ch("log(")>>,
      <<Ch("sqrt("), Ch("np.") \o Ch("sqrt(")>>,
      <<Ch("cbrt("), Ch("np.") \o Ch("cbrt(")>>,
      <<Ch("abs("), Ch("np.") \o Ch("abs(")>>,
      <<Ch(")^2"), Ch(")**2")>>,
      <<Ch(")^3"), Ch(")**3")>>,
      <<Ch(")^6"), Ch(")**6")>>,
      <<Ch(")^-1"), Ch(")**-1")>>>>

RECURSIVE NumpyFrom(_, _)
NumpyFrom(s, reps) ==
    IF reps = <<>> THEN s
    ELSE NumpyFrom(StrReplace(s, Head(reps)[1], Head(reps)[2]), Tail(reps))

NumpyOperators(s) == NumpyFrom(s, NumpyReplacements)

\* _decode_function as a whole: the raised exception, or the returned dict
DecodeScanned(s, e, st) ==
    IF e # ""
    THEN [err |-> e, evalstring |-> <<>>, features_in_string |-> <<>>, inputs |-> <<>>]
    ELSE [err |-> "",
          evalstring |-> NumpyOperators(FormatEvalstring(s, st.features_in_string)),
          features_in_string |-> st.features_in_string,
          inputs |-> st.inputs]

DecodeReplaced(s, rs) == DecodeScanned(s, CheckMarkers(rs), ScanFeatures(rs))

DecodeFunction(s) == DecodeReplaced(s, ReplacedString(s))


-----------------------------------------------------------------------------
(* SISSODescriptor.evaluate: eval(self.evalstring) with df in scope.       *)
(* df is a sequence of rows, each a function from column name to integer.  *)
(* A value is a column (one integer per row), a scalar, or an exception;   *)
(* division, negative powers and the np./scd functions give floats and are *)
(* reported as the value NotModelled.                                      *)

Err(e) == [k |-> "err", e |-> e]
Num(n) == [k |-> "num", n |-> n]
Col(c) == [k |-> "col", c |-> c]
IsErr(x) == x.k = "err"
\* a text that does not compile raises SyntaxError before anything is
\* evaluated, so an exception of the evaluation (KeyError) does not end the
\* reading of the text; what is not modelled does
Stops(x) == x = Err("SyntaxError") \/ x = Err("NotModelled")

RECURSIVE IntPow(_, _)
IntPow(b, e) == IF e = 0 THEN 1 ELSE b * IntPow(b, e - 1)

Arith(op, x, y) ==
    CASE op = "+"  -> x + y
      [] op = "-"  -> x - y
      [] op = "*"  -> x * y
      [] op = "**" -> IntPow(x, y)

\* numpy broadcasting of a binary operator over columns and scalars
Lift2(op, a, b) ==
    IF IsErr(a) THEN a
    ELSE IF IsErr(b) THEN b
    ELSE IF op = "/" THEN Err("NotModelled")
    ELSE IF op = "**" /\ (IF b.k = "num" THEN b.n < 0
                          ELSE \E r \in 1..Len(b.c) : b.c[r] < 0)
    THEN Err("NotModelled")
    ELSE IF a.k = "num" /\ b.k = "num" THEN Num(Arith(op, a.n, b.n))
    ELSE IF a.k = "col" /\ b.k = "col"
    THEN Col([r \in 1..Len(a.c) |-> Arith(op, a.c[r], b.c[r])])
    ELSE IF a.k = "col"
    THEN Col([r \in 1..Len(a.c) |-> Arith(op, a.c[r], b.n)])
    ELSE Col([r \in 1..Len(b.c) |-> Arith(op, a.n, b.c[r])])

Peek(s, i) == IF i < Len(s) THEN s[i + 1] ELSE "EOF"

Digits == {"0", "1", "2", "3", "4", "5", "6", "7", "8", "9"}

DigitVal(c) ==
    CASE c = "0" -> 0 [] c = "1" -> 1 [] c = "2" -> 2 [] c = "3" -> 3
      [] c = "4" -> 4 [] c = "5" -> 5 [] c = "6" -> 6 [] c = "7" -> 7
      [] c = "8" -> 8 [] c = "9" -> 9

RECURSIVE PyInt(_, _, _)
PyInt(s, i, acc) ==
    IF Peek(s, i) \in Digits THEN PyInt(s, i + 1, 10 * acc + DigitVal(s[i + 1]))
    ELSE [val |-> Num(acc), i |-> i]

\* the index of the first quote character at or after i, or Len(s) if there is none
RECURSIVE QuoteFrom(_, _)
QuoteFrom(s, i) ==
    IF i >= Len(s) \/ s[i + 1] = "'" THEN i ELSE QuoteFrom(s, i + 1)

\* df['name']: the column, or KeyError
ColumnLookup(tbl, name) ==
    IF tbl = <<>> THEN Col(<<>>)
    ELSE IF name \in DOMAIN tbl[1] THEN Col([r \in 1..Len(tbl) |-> tbl[r][name]])
    ELSE Err("KeyError")

\* Python's expression grammar: ** binds tighter than unary minus, then * /,
\* then + -; the binary operators associate to the left, ** to the right.
RECURSIVE PyExpr(_, _, _), PyExprRest(_, _, _, _), PyTerm(_, _, _)
RECURSIVE PyTermRest(_, _, _, _), PyFactor(_, _, _), PyPower(_, _, _), PyAtom(_, _, _)
RECURSIVE ExprFirst(_, _, _), ExprAfter(_, _, _, _, _), TermFirst(_, _, _)
RECURSIVE TermAfter(_, _, _, _, _), PowerAfter(_, _, _)

\* a parse is [val, i]: the value read and the position reached
Negated(f) == [val |-> Lift2("-", Num(0), f.val), i |-> f.i]
Raised(a, f) == [val |-> Lift2("**", a.val, f.val), i |-> f.i]

PyExpr(s, i, tbl) == ExprFirst(s, tbl, PyTerm(s, i, tbl))

ExprFirst(s, tbl, t) == IF Stops(t.val) THEN t ELSE PyExprRest(s, t.i, tbl, t.val)

PyExprRest(s, i, tbl, acc) ==
    IF Peek(s, i) \in {"+", "-"}
    THEN ExprAfter(s, Peek(s, i), tbl, acc, PyTerm(s, i + 1, tbl))
    ELSE [val |-> acc, i |-> i]

ExprAfter(s, op, tbl, acc, t) ==
    IF Stops(t.val) THEN t
    ELSE PyExprRest(s, t.i, tbl, Lift2(op, acc, t.val))

PyTerm(s, i, tbl) == TermFirst(s, tbl, PyFactor(s, i, tbl))

TermFirst(s, tbl, f) == IF Stops(f.val) THEN f ELSE PyTermRest(s, f.i, tbl, f.val)

PyTermRest(s, i, tbl, acc) ==
    IF Peek(s, i) \in {"*", "/"}
    THEN TermAfter(s, Peek(s, i), tbl, acc, PyFactor(s, i + 1, tbl))
    ELSE [val |-> acc, i |-> i]

TermAfter(s, op, tbl, acc, f) ==
    IF Stops(f.val) THEN f
    ELSE PyTermRest(s, f.i, tbl, Lift2(op, acc, f.val))

PyFactor(s, i, tbl) ==
    IF Peek(s, i) = "-" THEN Negated(PyFactor(s, i + 1, tbl))
    ELSE IF Peek(s, i) = "+" THEN PyFactor(s, i + 1, tbl)
    ELSE PyPower(s, i, tbl)

PyPower(s, i, tbl) == PowerAfter(s, tbl, PyAtom(s, i, tbl))

PowerAfter(s, tbl, a) ==
    IF Stops(a.val) THEN a
    ELSE IF Peek(s, a.i) = "*" /\ Peek(s, a.i + 1) = "*"
    THEN Raised(a, PyFactor(s, a.i + 2, tbl))
    ELSE a

Closed(s, e) ==
    IF Stops(e.val) THEN e
    ELSE IF Peek(s, e.i) = ")" THEN [val |-> e.val, i |-> e.i + 1]
    ELSE [val |-> Err("SyntaxError"), i |-> e.i]

Subscript(s, i, tbl, q) ==
    IF Peek(s, q) = "'" /\ Peek(s, q + 1) = "]"
    THEN [val |-> ColumnLookup(tbl, Slice(s, i + 4, q)), i |-> q + 2]
    ELSE [val |-> Err("SyntaxError"), i |-> q]

PyAtom(s, i, tbl) ==
    IF Peek(s, i) = "("
    THEN IF Peek(s, i + 1) = ")"
         THEN [val |-> Err("NotModelled"), i |-> i + 2]   \* the empty tuple
         ELSE Closed(s, PyExpr(s, i + 1, tbl))
    ELSE IF Peek(s, i) \in Digits THEN PyInt(s, i, 0)
    ELSE IF MatchAt(s, i, Ch("df['")) THEN Subscript(s, i, tbl, QuoteFrom(s, i + 4))
    ELSE IF MatchAt(s, i, Ch("np.")) \/ MatchAt(s, i, Ch("scd("))
    THEN [val |-> Err("NotModelled"), i |-> i]
    ELSE [val |-> Err("SyntaxError"), i |-> i]

Parsed(es, r) ==
    IF Stops(r.val) THEN r.val
    ELSE IF r.i # Len(es) THEN Err("SyntaxError")
    ELSE r.val

\* eval(evalstring): the value, or the exception eval raises
PyEval(es, tbl) == Parsed(es, PyExpr(es, 0, tbl))

-----------------------------------------------------------------------------
(* Report text.  A line is a sequence of atoms: single characters, and      *)
(* label words written as one atom (an atom that is no digit, sign, colon   *)
(* or blank behaves as a letter).  A text is the sequence of the lines that *)
(* split("\n") yields.                                                      *)

Has(t, a) == \E i \in 1..Len(t) : t[i] = a

\* pat in t
HasSub(t, pat) ==
    IF pat = <<>> THEN TRUE
    ELSE \E i \in 1..Len(t) : t[i] = pat[1] /\ MatchAt(t, i - 1, pat)

\* str.split(): the maximal runs of non-blank atoms
RECURSIVE SplitWsFrom(_, _, _)
SplitWsFrom(t, i, cur) ==
    IF i > Len(t) THEN (IF cur = <<>> THEN <<>> ELSE <<cur>>)
    ELSE IF t[i] = " "
         THEN (IF cur = <<>> THEN <<>> ELSE <<cur>>) \o SplitWsFrom(t, i + 1, <<>>)
         ELSE SplitWsFrom(t, i + 1, Append(cur, t[i]))

SplitWs(t) == SplitWsFrom(t, 1, <<>>)

\* str.split(sep) for a one-atom separator: always at least one piece
RECURSIVE SplitOnFrom(_, _, _, _)
SplitOnFrom(t, sep, i, cur) ==
    IF i > Len(t) THEN <<cur>>
    ELSE IF t[i] = sep THEN <<cur>> \o SplitOnFrom(t, sep, i + 1, <<>>)
    ELSE SplitOnFrom(t, sep, i + 1, Append(cur, t[i]))

SplitOn(t, sep) == SplitOnFrom(t, sep, 1, <<>>)

RECURSIVE StripLeft(_)
StripLeft(t) == IF t # <<>> /\ Head(t) \in {" ", "\n"} THEN StripLeft(Tail(t)) ELSE t

RECURSIVE StripRight(_)
StripRight(t) ==
    IF t # <<>> /\ t[Len(t)] \in {" ", "\n"}
    THEN StripRight(SubSeq(t, 1, Len(t) - 1)) ELSE t

Strip(t) == StripRight(StripLeft(t))

\* int(text): blanks around, an optional sign, one or more digits; else ValueError.
\* float(text) is modelled by the same reading: the reports of the model print
\* whole numbers.
Unsigned(body, sign) ==
    IF body = <<>> \/ \E i \in 1..Len(body) : body[i] \notin Digits
    THEN [ok |-> FALSE, n |-> 0]
    ELSE [ok |-> TRUE, n |-> sign * PyInt(body, 0, 0).val.n]

Signed(u) ==
    IF u # <<>> /\ u[1] \in {"-", "+"}
    THEN Unsigned(Tail(u), IF u[1] = "-" THEN -1 ELSE 1)
    ELSE Unsigned(u, 1)

ToInt(t) == Signed(Strip(t))

ToFloat(t) == ToInt(t)

-----------------------------------------------------------------------------
(* SISSODescriptor.from_string and SISSOModel.from_string                  *)

NoDescriptor == [descriptor_id |-> 0, descriptor_string |-> <<>>, evalstring |-> <<>>]

\* SISSODescriptor.from_string(line): [err, d]
\* SISSODescriptor(descriptor_id, descriptor_string), lines 72-81
Descriptor(id, descriptor_string, dec) ==
    IF dec.err # "" THEN [err |-> dec.err, d |-> NoDescriptor]
    ELSE [err |-> "",
          d |-> [descriptor_id |-> id,
                 descriptor_string |-> descriptor_string,
                 evalstring |-> dec.evalstring]]

\* sp[1][1:-1]
Inner(t) == IF Len(t) >= 2 THEN SubSeq(t, 2, Len(t) - 1) ELSE <<>>

DescriptorFromParts(sp, id) ==
    IF ~id.ok THEN [err |-> "ValueError", d |-> NoDescriptor]
    ELSE IF Len(sp) < 2 THEN [err |-> "IndexError", d |-> NoDescriptor]
    ELSE Descriptor(id.n, Inner(sp[2]), DecodeFunction(Inner(sp[2])))

DescriptorFromSplit(sp) == DescriptorFromParts(sp, ToInt(sp[1]))

DescriptorFromString(line) == DescriptorFromSplit(SplitOn(line, ":"))

\* the numbers of a coefficients_ line: [ok, row]
ConsFloat(h, r) == [ok |-> h.ok /\ r.ok, row |-> <<h.n>> \o r.row]

RECURSIVE ToFloats(_)
ToFloats(toks) ==
    IF toks = <<>> THEN [ok |-> TRUE, row |-> <<>>]
    ELSE ConsFloat(ToFloat(Head(toks)), ToFloats(Tail(toks)))

\* line 267: int(lines[0].split()[-1])
\* a number read from a token: [err, n]
Number(r) == IF r.ok THEN [err |-> "", n |-> r.n] ELSE [err |-> "ValueError", n |-> 0]

\* int(tokens[-1])
LastInt(toks) ==
    IF toks = <<>> THEN [err |-> "IndexError", n |-> 0]
    ELSE Number(ToInt(toks[Len(toks)]))

HeaderDimension(ls) == LastInt(SplitWs(ls[1]))

ModelStart(dim) ==
    [dimension |-> dim, descriptors_is_None |-> TRUE, descriptors |-> <<>>,
     coefficients |-> <<>>, intercept |-> <<>>, rmse |-> <<>>, maxae |-> <<>>,
     err |-> ""]

\* one pass of the loop of lines 273-287 over one line
\* line 277
AddDescriptor(st, d) ==
    IF d.err # "" THEN [st EXCEPT !.err = d.err]
    ELSE [st EXCEPT !.descriptors = Append(@, d.d)]

\* line 280
AddRow(st, row) ==
    IF ~row.ok THEN [st EXCEPT !.err = "ValueError"]
    ELSE [st EXCEPT !.coefficients = Append(@, row.row)]

AddCoefficients(st, sp) ==
    IF Len(sp) < 2 THEN [st EXCEPT !.err = "IndexError"]
    ELSE AddRow(st, ToFloats(SplitWs(sp[2])))

\* line 282
AddValue(st, v) ==
    IF ~v.ok THEN [st EXCEPT !.err = "ValueError"]
    ELSE [st EXCEPT !.intercept = Append(@, v.n)]

AddIntercept(st, sp) ==
    IF Len(sp) < 2 THEN [st EXCEPT !.err = "IndexError"]
    ELSE AddValue(st, ToFloat(sp[2]))

\* lines 284-287
AddErrors(st, r, m) ==
    IF ~r.ok \/ ~m.ok THEN [st EXCEPT !.err = "ValueError"]
    ELSE [st EXCEPT !.rmse = Append(@, r.n), !.maxae = Append(@, m.n)]

AddRmse(st, sp) ==
    IF Len(sp) < 3 THEN [st EXCEPT !.err = "IndexError"]
    ELSE AddErrors(st, ToFloat(sp[2]), ToFloat(sp[3]))

ModelLine(st, line) ==
    IF Has(line, "@@@descriptor")
    THEN [st EXCEPT !.descriptors_is_None = FALSE, !.descriptors = <<>>]
    ELSE IF ~st.descriptors_is_None /\ Len(st.descriptors) < st.dimension
    THEN AddDescriptor(st, DescriptorFromString(line))
    ELSE IF Has(line, "coefficients_") THEN AddCoefficients(st, SplitOn(line, ":"))
    ELSE IF Has(line, "Intercept_") THEN AddIntercept(st, SplitOn(line, ":"))
    ELSE IF Has(line, "RMSE,MaxAE_") THEN AddRmse(st, SplitWs(line))
    ELSE st

\* a slip in lines 289-290: the test for a missing descriptor block left out
ModelFinish_NoCheck(st) == st

\* lines 289-290
ModelFinish(st) ==
    IF st.err = "" /\ st.descriptors_is_None
    THEN [st EXCEPT !.err = "ValueError: Descriptor not found"]
    ELSE st

RECURSIVE ModelLoop(_, _, _)
ModelLoop(st, ls, i) ==
    IF st.err # "" \/ i > Len(ls) THEN st
    ELSE ModelLoop(ModelLine(st, ls[i]), ls, i + 1)

\* SISSOModel.from_string as a whole: err # "" when it raises
\* the Model after line 272
ModelAfterHeader(h) == [ModelStart(h.n) EXCEPT !.err = h.err]

ModelFromString(ls) == ModelFinish(ModelLoop(ModelAfterHeader(HeaderDimension(ls)), ls, 1))

-----------------------------------------------------------------------------
(* SISSOParams.from_string                                                 *)

PARAMS ==
    <<[class_var |-> "property_type", output_var_str |-> "Property type:",
       var_type |-> "int"],
      [class_var |-> "total_number_properties", output_var_str |-> "Number of tasks:",
       var_type |-> "int"],
      [class_var |-> "descriptor_dimension", output_var_str |-> "Descriptor dimension:",
       var_type |-> "int"],
      [class_var |-> "number_of_samples",
       output_var_str |-> "Number of samples for each task:",
       var_type |-> "list_of_ints"],
      [class_var |-> "n_scalar_features", output_var_str |-> "Number of scalar features:",
       var_type |-> "int"],
      [class_var |-> "n_rungs", output_var_str |-> "Tier of the feature space:",
       var_type |-> "int"],
      [class_var |-> "max_feature_complexity",
       output_var_str |-> "Maximal feature complexity (number of operators in a feature):",
       var_type |-> "int"],
      [class_var |-> "dimension_types",
       output_var_str |-> "Units of the input primary features (each represented by a vector):",
       var_type |-> "matrix_of_floats"],
      [class_var |-> "lower_bound_maxabs_value",
       output_var_str |-> "The feature will be discarded if the minimum of the maximal abs. value in it <",
       var_type |-> "float"],
      [class_var |-> "upper_bound_maxabs_value",
       output_var_str |-> "The faature will be discarded if the maximum of the maximal abs. value in it >",
       var_type |-> "float"],
      [class_var |-> "SIS_subspaces_sizes",
       output_var_str |-> "Size of the SIS-selected (single) subspace :",
       var_type |-> "list_of_ints"],
      [class_var |-> "operators", output_var_str |-> "Operators for feature construction:",
       var_type |-> "list_of_strs"],
      [class_var |-> "sparsification_method",
       output_var_str |-> "Method for sparse regression:", var_type |-> "str"],
      [class_var |-> "n_topmodels",
       output_var_str |-> "Number of the top-ranked models to output:", var_type |-> "int"],
      [class_var |-> "fit_intercept", output_var_str |-> "Fitting intercept:",
       var_type |-> "str_to_bool"],
      [class_var |-> "metric", output_var_str |-> "Metric for model selection:",
       var_type |-> "str"]>>

\* atoms that stand for a number written with a decimal point (\d+\.\d*)
DecimalAtoms == {"0.00", "1.00", "2.00"}
DecimalValue(a) == CASE a = "0.00" -> 0 [] a = "1.00" -> 1 [] a = "2.00" -> 2

\* var_type(token): [err, v].  list_of_ints, list_of_strs, str_to_bool and
\* matrix_of_floats live in pysisso.utils; applied to one token, the list
\* coercions give a one-element list.
Typed(var_type, r) ==
    IF ~r.ok THEN [err |-> "ValueError", v |-> NoValue]
    ELSE IF var_type = "list_of_ints"
    THEN [err |-> "", v |-> [t |-> "list_of_ints", l |-> <<r.n>>]]
    ELSE [err |-> "", v |-> [t |-> var_type, n |-> r.n]]

Coerce(var_type, tok) ==
    CASE var_type \in {"int", "float", "list_of_ints"} -> Typed(var_type, ToInt(tok))
      [] var_type = "str" -> [err |-> "", v |-> [t |-> "str", s |-> tok]]
      [] var_type = "list_of_strs" ->
           [err |-> "", v |-> [t |-> "list_of_strs", l |-> <<tok>>]]
      [] var_type = "str_to_bool" ->
           IF tok = <<".true.">> THEN [err |-> "", v |-> [t |-> "bool", b |-> TRUE]]
           ELSE IF tok = <<".false.">>
           THEN [err |-> "", v |-> [t |-> "bool", b |-> FALSE]]
           ELSE [err |-> "ValueError", v |-> NoValue]

\* re.findall(label + ".*?\n", string): the lines that hold the label and are
\* followed by a newline, in order (the last piece of the text is not)
MatchLines(ls, label) ==
    SelectSeq(SubSeq(ls, 1, Len(ls) - 1), LAMBDA line : HasSub(line, label))

\* match.split()[-1]
Last(toks) == toks[Len(toks)]
LastToken(line) == Last(SplitWs(line))

\* "  (?:\d+\.\d* )+(?:\d+\.\d*)\n" matched from atom k of a line to its end
UnitsAt(line, k) ==
    /\ k + 4 <= Len(line)
    /\ (Len(line) - k) % 2 = 0
    /\ line[k] = " " /\ line[k + 1] = " "
    /\ \A j \in (k + 2)..Len(line) :
          IF (j - k) % 2 = 0 THEN line[j] \in DecimalAtoms ELSE line[j] = " "

\* the rows of the first run of such lines (re.search), or <<>> if there is none
RECURSIVE UnitsRun(_, _)
UnitsRun(ls, i) ==
    IF i < Len(ls) /\ UnitsAt(ls[i], 1)
    THEN <<[j \in 1..((Len(ls[i]) - 1) \div 2) |-> DecimalValue(ls[i][2 * j + 1])] >>
         \o UnitsRun(ls, i + 1)
    ELSE <<>>

UnitsMatch(ls) ==
    IF \E i \in 1..(Len(ls) - 1) : \E k \in 1..Len(ls[i]) : UnitsAt(ls[i], k)
    THEN LET i == CHOOSE i \in 1..(Len(ls) - 1) :
                     /\ \E k \in 1..Len(ls[i]) : UnitsAt(ls[i], k)
                     /\ \A h \in 1..(i - 1) : ~\E k \in 1..Len(ls[h]) : UnitsAt(ls[h], k)
             k == CHOOSE k \in 1..Len(ls[i]) :
                     UnitsAt(ls[i], k) /\ \A h \in 1..(k - 1) : ~UnitsAt(ls[i], h)
         IN  <<[j \in 1..((Len(ls[i]) - k) \div 2) |-> DecimalValue(ls[i][k + 2 * j])] >>
             \o UnitsRun(ls, i + 1)
    ELSE <<>>

NoKwargs == [x \in {} |-> NoValue]

\* kwargs[class_var] = value
SetValue(st, class_var, c) ==
    IF c.err # "" THEN [st EXCEPT !.err = c.err]
    ELSE [st EXCEPT !.kwargs = (class_var :> c.v) @@ st.kwargs]

\* var_type(match.split()[-1])
SetFromTokens(st, entry, toks) ==
    IF toks = <<>> THEN [st EXCEPT !.err = "IndexError"]
    ELSE SetValue(st, entry.class_var, Coerce(entry.var_type, Last(toks)))

\* lines 477-479
SetFromMatches(st, entry, matches) ==
    IF Len(matches) # 1
    THEN IF matches = <<>> THEN [st EXCEPT !.err = "IndexError"]
         ELSE SetFromTokens(st, entry, SplitWs(matches[1]))
    ELSE st

\* lines 471-475
SetUnits(st, class_var, m) ==
    IF m # <<>>
    THEN SetValue(st, class_var, [err |-> "", v |-> [t |-> "matrix_of_floats", m |-> m]])
    ELSE st

\* lines 470-479 for one entry of PARAMS; st = [err, kwargs]
ParamsEntry(st, entry, ls) ==
    IF entry.class_var = "dimension_types"
    THEN SetUnits(st, entry.class_var, UnitsMatch(ls))
    ELSE SetFromMatches(st, entry, MatchLines(ls, <<entry.output_var_str>>))

RECURSIVE ParamsLoop(_, _, _)
ParamsLoop(st, ls, i) ==
    IF st.err # "" \/ i > Len(PARAMS) THEN st
    ELSE ParamsLoop(ParamsEntry(st, PARAMS[i], ls), ls, i + 1)

\* SISSOParams.from_string as a whole: [err, kwargs]
ParamsFromString(ls) == ParamsLoop([err |-> "", kwargs |-> NoKwargs], ls, 1)

-----------------------------------------------------------------------------
(* SISSOIteration.from_string, SISSOVersion.from_string, SISSOOut.from_file *)

PhiLabel == <<"Total number of features in the space", " ", "phi">>
SisLabel == <<"Size of the SIS-selected subspace">>
TimeDILabel == <<"Time (second) used for this DI", ":">>
DimensionLabel == <<"Dimension", ":">>
TotalTimeLabel == <<"Total time (second)", ":">>
Sentinel == <<"Have a nice day !">>

\* the text of a match that starts at the label: the line from the label on
FromLabel(line, label) ==
    LET i == CHOOSE i \in 0..Len(line) :
                 MatchAt(line, i, label) /\ \A h \in 0..(i - 1) : ~MatchAt(line, h, label)
    IN  SubSeq(line, i + 1, Len(line))

\* a dict as the sequence of its items [k, v] in insertion order
HasKey(d, key) == \E i \in 1..Len(d) : d[i].k = key

\* a slip in lines 352-354: a key that is there keeps its value
DictSet_KeepFirst(d, key, v) ==
    IF HasKey(d, key) THEN d ELSE Append(d, [k |-> key, v |-> v])

\* d[key] = v: a key that is there keeps its place and takes the new value, a
\* new key goes to the end
DictSet(d, key, v) ==
    IF HasKey(d, key)
    THEN [i \in 1..Len(d) |-> IF d[i].k = key THEN [k |-> key, v |-> v] ELSE d[i]]
    ELSE Append(d, [k |-> key, v |-> v])

\* lines 352-354: {mfs.split()[-2][:-1]: int(mfs.split()[-1])}, later lines
\* overwriting earlier ones of the same key; [err, d]
RECURSIVE FeatureSpaces(_, _), FeatureSpace(_, _, _), FeatureCount(_, _, _, _)
FeatureSpaces(ms, d) ==
    IF ms = <<>> THEN [err |-> "", d |-> d]
    ELSE FeatureSpace(ms, d, SplitWs(FromLabel(Head(ms), PhiLabel)))

FeatureSpace(ms, d, toks) ==
    IF Len(toks) < 2 THEN [err |-> "IndexError", d |-> d]
    ELSE FeatureCount(ms, d, SubSeq(toks[Len(toks) - 1], 1, Len(toks[Len(toks) - 1]) - 1),
                      ToInt(Last(toks)))

FeatureCount(ms, d, key, n) ==
    IF ~n.ok THEN [err |-> "ValueError", d |-> d]
    ELSE FeatureSpaces(Tail(ms), DictSet(d, key, n.n))

NoIteration ==
    [iteration_number |-> 0, sisso_model |-> ModelStart(0),
     feature_spaces |-> <<>>, SIS_subspace_size |-> 0, cpu_time |-> 0]

\* int(matches[0].split()[-1]): [err, n]
FirstMatchNumber(matches) ==
    IF matches = <<>> THEN [err |-> "IndexError", n |-> 0]
    ELSE LastInt(SplitWs(matches[1]))

\* lines 349-371, each part read or the exception it raised
Iteration(m, fs, sis, cpu) ==
    IF m.err # "" THEN [err |-> m.err, it |-> NoIteration]
    ELSE IF fs.err # "" THEN [err |-> fs.err, it |-> NoIteration]
    ELSE IF sis.err # "" THEN [err |-> sis.err, it |-> NoIteration]
    ELSE IF cpu.err # "" THEN [err |-> cpu.err, it |-> NoIteration]
    ELSE [err |-> "",
          it |-> [iteration_number |-> m.dimension,
                  sisso_model |-> m,
                  feature_spaces |-> fs.d,
                  SIS_subspace_size |-> sis.n,
                  cpu_time |-> cpu.n]]

\* SISSOIteration.from_string(block): [err, it]
IterationFromString(ls) ==
    Iteration(ModelFromString(ls),
              FeatureSpaces(MatchLines(ls, PhiLabel), <<>>),
              FirstMatchNumber(MatchLines(ls, SisLabel)),
              FirstMatchNumber(MatchLines(ls, TimeDILabel)))

NoVersion == [header_string |-> <<>>, version |-> <<>>]

\* a list of Python str objects, as opposed to int objects [t |-> "int", n |-> _]
PyStrs(toks) == [i \in 1..Len(toks) |-> [t |-> "str", s |-> toks[i]]]

\* SISSOVersion.from_string(header): version_sp[1:] is a list of str
VersionFromString(line) ==
    [header_string |-> Strip(line),
     version |-> PyStrs(Tail(SplitOn(SplitOn(line, ",")[1], ".")))]

\* the lines the text has for iteration over the file
FileLines(ls) ==
    IF ls # <<>> /\ ls[Len(ls)] = <<>> THEN SubSeq(ls, 1, Len(ls) - 1) ELSE ls

\* the pieces of the match that starts in line s and ends with the newline of
\* line e: iteration_string.split("\n")
BlockLines(ls, s, e) ==
    <<FromLabel(ls[s], DimensionLabel)>> \o SubSeq(ls, s + 1, e) \o << <<>> >>

\* lines holding a pattern and followed by a newline, from line i on
NextLine(ls, label, i) ==
    IF \E j \in i..(Len(ls) - 1) : HasSub(ls[j], label)
    THEN CHOOSE j \in i..(Len(ls) - 1) :
             HasSub(ls[j], label) /\ \A h \in i..(j - 1) : ~HasSub(ls[h], label)
    ELSE 0

LastLine(ls, label, i) ==
    IF \E j \in i..(Len(ls) - 1) : HasSub(ls[j], label)
    THEN CHOOSE j \in i..(Len(ls) - 1) :
             HasSub(ls[j], label) /\ \A h \in (j + 1)..(Len(ls) - 1) : ~HasSub(ls[h], label)
    ELSE 0

\* the match that starts in line s, if it has an end e, and those after it
RECURSIVE FindIterations(_, _), FindFrom(_, _), FindNext(_, _, _)

FindNext(ls, s, e) ==
    IF e = 0 THEN <<>> ELSE <<BlockLines(ls, s, e)>> \o FindIterations(ls, e + 1)

\* a slip in line 540: the first ".*?" written greedy, so that a match runs to
\* the last DI time report of the text
FindFrom_Greedy(ls, s) ==
    IF s = 0 THEN <<>> ELSE FindNext(ls, s, LastLine(ls, TimeDILabel, s))

FindFrom(ls, s) ==
    IF s = 0 THEN <<>> ELSE FindNext(ls, s, NextLine(ls, TimeDILabel, s))

\* lines 540-541: re.findall of "Dimension:.*?(?=Time \(second\) used for this
\* DI:).*?\n" with DOTALL, searching from line i on.  A match starts at the next
\* "Dimension:" and ends with the newline of the first DI time report after it.
FindIterations(ls, i) == FindFrom(ls, NextLine(ls, DimensionLabel, i))

\* a slip in line 531: allow_unfinished not consulted
SentinelCheck_Strict(ls, allow) ==
    IF ~\E i \in 1..Len(ls) : HasSub(ls[i], Sentinel)
    THEN "ValueError: SISSO.out should end with 'Have a nave day !'"
    ELSE ""

\* lines 529-536
SentinelCheck(ls, allow) ==
    IF (~\E i \in 1..Len(ls) : HasSub(ls[i], Sentinel)) /\ ~allow
    THEN "ValueError: SISSO.out should end with 'Have a nave day !'"
    ELSE ""

\* next(f) for the k-th line of the file: the line with the newline that ends it
FileLine(ls, k) == IF k < Len(ls) THEN Append(ls[k], "\n") ELSE ls[k]

\* lines 548-551: [err, v]
ThirdLine(ls, fl) ==
    IF Len(fl) < 3 THEN [err |-> "StopIteration", v |-> NoVersion]
    ELSE [err |-> "", v |-> VersionFromString(FileLine(ls, 3))]

HeaderVersion(ls) == ThirdLine(ls, FileLines(ls))

\* lines 553-555: [err, t]
TotalTimeAt(ls, j) ==
    IF j = 0
    THEN [err |-> "TypeError: 'NoneType' object is not subscriptable", n |-> 0]
    ELSE LastInt(SplitWs(ls[j]))

TotalTime(ls) == TotalTimeAt(ls, NextLine(ls, TotalTimeLabel, 1))

\* a slip in line 567: the first iteration instead of the last
OutModel_First(its) ==
    IF its = <<>> THEN [err |-> "IndexError", v |-> ModelStart(0)]
    ELSE [err |-> "", v |-> its[1].sisso_model]

\* the model property, lines 561-567: [err, v]
OutModel(its) ==
    IF its = <<>> THEN [err |-> "IndexError", v |-> ModelStart(0)]
    ELSE [err |-> "", v |-> its[Len(its)].sisso_model]

\* the models property, lines 569-572
OutModels(its) == [i \in 1..Len(its) |-> its[i].sisso_model]

-----------------------------------------------------------------------------
(* SISSOModel.predict                                                      *)

\* line 248: np.array([[intercept] * len(df) for intercept in self.intercept]).T
\* (an empty list of intercepts gives the one-dimensional empty array)
InitialArray(intercept, nrows) ==
    IF intercept = <<>> THEN [k |-> "array", shape |-> <<0>>, a |-> <<>>]
    ELSE [k |-> "array", shape |-> <<nrows, Len(intercept)>>,
          a |-> [r \in 1..nrows |-> [t \in 1..Len(intercept) |-> intercept[t]]]]

\* out[:, itask] += c * v
AddColumn(out, itask, c, v) ==
    IF IsErr(v) THEN v
    ELSE IF Len(out.shape) < 2 \/ itask > out.shape[2] THEN Err("IndexError")
    ELSE [out EXCEPT !.a =
             [r \in 1..out.shape[1] |->
                 [out.a[r] EXCEPT ![itask] =
                     @ + c * (IF v.k = "col" THEN v.c[r] ELSE v.n)]]]

\* coeffs[idescr] * descriptor.evaluate(df), added to the column of the task
AddTerm(out, coeffs, descriptor, idescr, itask, tbl) ==
    IF idescr > Len(coeffs) THEN Err("IndexError")
    ELSE AddColumn(out, itask, coeffs[idescr], PyEval(descriptor.evalstring, tbl))

\* a slip in lines 251-252: the coefficient taken from the wrong task's row
PredictCell_WrongRow(out, m, idescr, itask, tbl) ==
    AddTerm(out, m.coefficients[1], m.descriptors[idescr], idescr, itask, tbl)

\* lines 251-252 for one descriptor and one task: out[:, itask] += coeffs[idescr] * value
PredictCell(out, m, idescr, itask, tbl) ==
    AddTerm(out, m.coefficients[itask], m.descriptors[idescr], idescr, itask, tbl)

\* lines 249-252: descriptors outermost, tasks innermost
RECURSIVE PredictLoop(_, _, _, _, _)
PredictLoop(out, m, idescr, itask, tbl) ==
    IF out.k = "err" \/ idescr > Len(m.descriptors) THEN out
    ELSE IF itask > Len(m.coefficients) THEN PredictLoop(out, m, idescr + 1, 1, tbl)
    ELSE PredictLoop(PredictCell(out, m, idescr, itask, tbl), m, idescr, itask + 1, tbl)

Predict(m, tbl) == PredictLoop(InitialArray(m.intercept, Len(tbl)), m, 1, 1, tbl)

-----------------------------------------------------------------------------
(* The notations the decoder is run on: expressions over two features      *)
(* written the way the solver writes them, and a few hand-written strings. *)

MaxOps == 2      \* operators in a generated expression
MaxVal == 2      \* column values range over -MaxVal..MaxVal
Cap == 30000     \* generated expressions stay below this magnitude

F1 == <<"f", "1">>
F2 == <<"x">>
Features == {F1, F2}

Feat(n) == [t |-> "feat", n |-> n]
Bin(op, l, r) == [t |-> "bin", op |-> op, l |-> l, r |-> r]
Pow(k, e) == [t |-> "pow", k |-> k, e |-> e]

RECURSIVE ExprsOps(_)
ExprsOps(n) ==
    IF n = 0 THEN {Feat(f) : f \in Features}
    ELSE {Pow(k, e) : k \in {2, 3, 6}, e \in ExprsOps(n - 1)}
         \cup UNION {{Bin(op, l, r) : op \in {"+", "-", "*"},
                                      l \in ExprsOps(i), r \in ExprsOps(n - 1 - i)}
                     : i \in 0..(n - 1)}

Sat(n) == IF n > Cap THEN Cap + 1 ELSE n

RECURSIVE SatPow(_, _)
SatPow(b, e) == IF e = 0 THEN 1 ELSE Sat(b * SatPow(b, e - 1))

\* an upper bound of |e| on any row, saturated above Cap
RECURSIVE Magnitude(_)
Magnitude(e) ==
    CASE e.t = "feat" -> MaxVal
      [] e.t = "pow"  -> SatPow(Magnitude(e.e), e.k)
      [] e.t = "bin"  -> IF e.op = "*" THEN Sat(Magnitude(e.l) * Magnitude(e.r))
                         ELSE Sat(Magnitude(e.l) + Magnitude(e.r))

Exprs == {e \in UNION {ExprsOps(n) : n \in 0..MaxOps} : Magnitude(e) <= Cap}

\* the solver's spelling: (l op r), (e)^k, a feature by its name
RECURSIVE PrintSisso(_)
PrintSisso(e) ==
    CASE e.t = "feat" -> e.n
      [] e.t = "pow"  -> <<"(">> \o PrintSisso(e.e) \o <<")", "^">> \o Ch(
                             CASE e.k = 2 -> "2" [] e.k = 3 -> "3" [] e.k = 6 -> "6")
      [] e.t = "bin"  -> <<"(">> \o PrintSisso(e.l) \o <<e.op>> \o PrintSisso(e.r)
                             \o <<")">>

\* the same without the outermost parentheses of a binary operation
PrintTop(e) ==
    IF e.t = "bin" THEN PrintSisso(e.l) \o <<e.op>> \o PrintSisso(e.r)
    ELSE PrintSisso(e)

\* the value of an expression on one row, computed on the expression itself
RECURSIVE EvalExpr(_, _)
EvalExpr(e, row) ==
    CASE e.t = "feat" -> row[e.n]
      [] e.t = "pow"  -> IntPow(EvalExpr(e.e, row), e.k)
      [] e.t = "bin"  -> Arith(e.op, EvalExpr(e.l, row), EvalExpr(e.r, row))

ExtraNotations ==
    { <<>>,
      <<"(", ")">>,
      Ch("exp(-") \o F1 \o <<")">>,
      <<"(">> \o Ch("sin(") \o F1 \o <<")">> \o Ch(")^-1"),
      <<"(">> \o F1 \o <<"/">> \o F2 \o <<")">>,
      Ch("scd(") \o F2 \o <<")">>,
      Ch("abs(") \o F1 \o <<"-">> \o F2 \o <<")">>,
      Ch("sqrt(") \o Ch("cbrt(") \o Ch("log(") \o Ch("cos(") \o F2
          \o <<")", ")", ")", ")">>,
      <<"(">> \o F1,
      F1 \o <<")">>,
      <<"(">> \o F1 \o <<")", "^", "2", "^", "3">>,
      <<"(">> \o Ch("exp(-") \o F1 \o <<")">> \o Ch(")^-1"),
      <<"(">> \o Ch("exp(") \o F2 \o <<")">> \o Ch(")^6"),
      <<"(", "e", "x", "p", "-">> \o F2 \o <<")">>,
      <<"(", "c", "o", "s">> \o F2 \o <<"+">> \o Ch("sin(") \o F2 \o <<")", ")">>,
      <<"(">> \o F1 \o <<")", "^", "4">> }

RECURSIVE SeqsUpTo(_, _)
SeqsUpTo(S, n) ==
    IF n = 0 THEN {<<>>}
    ELSE SeqsUpTo(S, n - 1)
         \cup {Append(q, x) : q \in {q \in SeqsUpTo(S, n - 1) : Len(q) = n - 1}, x \in S}

MaxLen == 3      \* characters of a notation written from the alphabet

\* every string of up to MaxLen characters over a few characters of tokens
\* and of names
ShortNotations == SeqsUpTo({"(", ")", "^", "-", "2", "x"}, MaxLen)

DecodeInputs ==
    {[s |-> PrintSisso(e), e |-> e] : e \in Exprs}
    \cup {[s |-> PrintTop(e), e |-> e] : e \in Exprs}
    \cup {[s |-> n, e |-> NoExpr] : n \in ExtraNotations \cup ShortNotations}

\* every row over the two features, and the same table without column F2
Rows == [Features -> (-MaxVal)..MaxVal]

RECURSIVE SeqOfSet(_)
SeqOfSet(S) ==
    IF S = {} THEN <<>>
    ELSE LET x == CHOOSE y \in S : TRUE IN <<x>> \o SeqOfSet(S \ {x})

FullTable == SeqOfSet(Rows)
NarrowTable == SeqOfSet([{F1} -> (-MaxVal)..MaxVal])
Tables == {FullTable, NarrowTable}

-----------------------------------------------------------------------------
(* SISSODescriptor: _decode_function step by step, then evaluate.          *)

IdleD ==
    /\ expr = NoExpr
    /\ string = <<>>
    /\ replaced_string = <<>>
    /\ features_in_string = <<>>
    /\ inputs = <<>>
    /\ evalstring = <<>>
    /\ df = <<>>
    /\ dvalue = NoValue
    /\ dpc = "idle"
    /\ derr = ""

IdleM ==
    /\ lines = <<>>
    /\ iline = 0
    /\ sisso_model = ModelStart(0)
    /\ mpc = "idle"
    /\ pdf = <<>>
    /\ pout = NoValue

IdleP ==
    /\ ptext = <<>>
    /\ iparam = 0
    /\ kwargs = NoKwargs
    /\ ppc = "idle"
    /\ perr = ""

IdleO ==
    /\ report = <<>>
    /\ allow_unfinished = FALSE
    /\ params = NoKwargs
    /\ match = <<>>
    /\ iterations = <<>>
    /\ version = NoVersion
    /\ cpu_time = 0
    /\ opc = "idle"
    /\ oerr = ""
    /\ got = NoValue

IdleI ==
    /\ istring = <<>>
    /\ iteration = NoIteration
    /\ ipc = "idle"
    /\ ierr = ""

IdleC ==
    /\ files = <<>>
    /\ cfile = <<>>
    /\ cflag = <<>>
    /\ cstring = <<>>
    /\ cresult = <<>>
    /\ cpc = <<>>
    /\ cerr = <<>>

\* a directory name: None, the name the user gave, or a name of mkdtemp
NoneDir == [k |-> "None", n |-> 0]
UserDir == [k |-> "user", n |-> 0]
TempDir(n) == [k |-> "temp", n |-> n]

IdleF ==
    /\ arg_run_dir = NoneDir
    /\ run_dir = NoneDir
    /\ clean_run_dir = FALSE
    /\ dirs = {}
    /\ fit_dirs = <<>>
    /\ fpc = "idle"

IdleE == IdleI /\ IdleC /\ IdleF

DecodeInit ==
    /\ IdleM /\ IdleP /\ IdleO /\ IdleE
    /\ \E item \in DecodeInputs : string = item.s /\ expr = item.e
    /\ replaced_string = <<>>
    /\ features_in_string = <<>>
    /\ inputs = <<>>
    /\ evalstring = <<>>
    /\ df = <<>>
    /\ dvalue = NoValue
    /\ dpc = "replace"
    /\ derr = ""

DecodeReplace ==
    /\ dpc = "replace"
    /\ replaced_string' = ReplacedString(string)
    /\ dpc' = "check"
    /\ UNCHANGED <<expr, string, features_in_string, inputs, evalstring, df,
                   dvalue, derr>>
    /\ UNCHANGED notD

DecodeCheck ==
    /\ dpc = "check"
    /\ derr' = CheckMarkers(replaced_string)
    /\ dpc' = IF derr' = "" THEN "scan" ELSE "raised"
    /\ UNCHANGED <<expr, string, replaced_string, features_in_string, inputs,
                   evalstring, df, dvalue>>
    /\ UNCHANGED notD

DecodeScan ==
    /\ dpc = "scan"
    /\ features_in_string' = ScanFeatures(replaced_string).features_in_string
    /\ inputs' = ScanFeatures(replaced_string).inputs
    /\ dpc' = "format"
    /\ UNCHANGED <<expr, string, replaced_string, evalstring, df, dvalue, derr>>
    /\ UNCHANGED notD

DecodeFormat ==
    /\ dpc = "format"
    /\ evalstring' = FormatEvalstring(string, features_in_string)
    /\ dpc' = "numpy"
    /\ UNCHANGED <<expr, string, replaced_string, features_in_string, inputs, df,
                   dvalue, derr>>
    /\ UNCHANGED notD

DecodeNumpy ==
    /\ dpc = "numpy"
    /\ evalstring' = NumpyOperators(evalstring)
    /\ dpc' = "decoded"
    /\ UNCHANGED <<expr, string, replaced_string, features_in_string, inputs, df,
                   dvalue, derr>>
    /\ UNCHANGED notD

Evaluate ==
    /\ dpc = "decoded"
    /\ \E t \in Tables : df' = t /\ dvalue' = PyEval(evalstring, t)
    /\ dpc' = "evaluated"
    /\ UNCHANGED <<expr, string, replaced_string, features_in_string, inputs,
                   evalstring, derr>>
    /\ UNCHANGED notD

DecodeNext ==
    \/ DecodeReplace
    \/ DecodeCheck
    \/ DecodeScan
    \/ DecodeFormat
    \/ DecodeNumpy
    \/ Evaluate

SpecDecode == DecodeInit /\ [][DecodeNext]_vars


-----------------------------------------------------------------------------
(* The blocks SISSOModel.from_string is run on: a "Dimension:" header, the  *)
(* descriptor marker (or not), some descriptor lines, then per task the     *)
(* coefficients_, Intercept_ and RMSE,MaxAE_ lines, and an ending.          *)

MaxDim == 2      \* dimensions declared, descriptor lines written
MaxTasks == 2    \* tasks written

\* a small integer as the solver prints it
Str(n) ==
    LET d(k) == CASE k = 0 -> "0" [] k = 1 -> "1" [] k = 2 -> "2" [] k = 3 -> "3"
                  [] k = 4 -> "4" [] k = 5 -> "5" [] k = 6 -> "6" [] k = 7 -> "7"
                  [] k = 8 -> "8" [] k = 9 -> "9"
        a == IF n < 0 THEN 0 - n ELSE n
        digs == IF a >= 10 THEN <<d(a \div 10), d(a % 10)>> ELSE <<d(a)>>
    IN  IF n < 0 THEN <<"-">> \o digs ELSE digs

LDim(n) == <<"Dimension", ":", " ", " ">> \o Str(n)
LMarker == <<"@@@descriptor", ":">>
LDesc(id, notation) == <<" ", " ">> \o Str(id) \o <<":", "[">> \o notation \o <<"]">>
LCoef(task, vals) ==
    <<" ", "coefficients_", "0", "0">> \o Str(task) \o <<":">>
        \o vals
LInt(task, v) == <<" ", "Intercept_", "0", "0">> \o Str(task) \o <<":", " ">> \o Str(v)
LRmse(task, r, m) ==
    <<" ", "RMSE,MaxAE_", "0", "0">> \o Str(task) \o <<":", " ">> \o Str(r)
        \o <<" ", " ">> \o Str(m)
LPhi(rung, n) ==
    <<"Total number of features in the space", " ", "phi", "0">> \o Str(rung)
        \o <<":", " ", " ">> \o Str(n)
LSis(n) == <<"Size of the SIS-selected subspace", " ", "from", " ", "phi", ":", " ">>
               \o Str(n)
LTimeDI(n) == <<"Time (second) used for this DI", ":", " ", " ">> \o Str(n)
LOther == <<"DI", " ", "done!">>
LEmpty == <<>>

\* the numbers the generated blocks print
CoefValue(t, d) == 2 * t - 3 * d
InterceptValue(t) == t + 2

RECURSIVE CoefText(_, _, _)
CoefText(t, d, dim) ==
    IF d > dim THEN <<>> ELSE <<" ">> \o Str(CoefValue(t, d)) \o CoefText(t, d + 1, dim)

DescNotations ==
    { <<"(">> \o F1 \o <<"-">> \o F2 \o <<")">>,
      <<"(", "(">> \o F1 \o <<"*">> \o F2 \o <<")", ")", "^", "2">>,
      F1 }

RECURSIVE TaskLines(_, _, _, _, _)
TaskLines(t, ntasks, dim, dropCoef, dropInt) ==
    IF t > ntasks THEN <<>>
    ELSE (IF dropCoef /\ t = ntasks THEN <<>> ELSE <<LCoef(t, CoefText(t, 1, dim))>>)
         \o (IF dropInt /\ t = ntasks THEN <<>> ELSE <<LInt(t, InterceptValue(t))>>)
         \o <<LRmse(t, t, t + 1)>>
         \o TaskLines(t + 1, ntasks, dim, dropCoef, dropInt)

\* how the block ends: at its last line with no newline, with a newline, or with
\* the lines that close an iteration
Endings == { <<>>, <<LEmpty>>, <<LSis(5), LTimeDI(1), LEmpty>> }

Block(dim, marker, descs, ntasks, dropCoef, dropInt, ending) ==
    <<LDim(dim)>>
    \o (IF marker THEN <<LMarker>> ELSE <<>>)
    \o [k \in 1..Len(descs) |-> LDesc(k, descs[k])]
    \o TaskLines(1, ntasks, dim, dropCoef, dropInt)
    \o ending

ModelBlocks ==
    {Block(dim, marker, descs, ntasks, dropCoef, dropInt, ending) :
        dim \in 1..MaxDim, marker \in BOOLEAN, descs \in SeqsUpTo(DescNotations, MaxDim),
        ntasks \in 0..MaxTasks, dropCoef \in BOOLEAN, dropInt \in BOOLEAN,
        ending \in Endings}

-----------------------------------------------------------------------------
(* SISSOModel.from_string line by line, then predict.                      *)

ModelInit ==
    /\ IdleD /\ IdleP /\ IdleO /\ IdleE
    /\ lines \in ModelBlocks
    /\ iline = 0
    /\ sisso_model = ModelStart(0)
    /\ mpc = "header"
    /\ pdf = <<>>
    /\ pout = NoValue

\* line 267
ModelHeader ==
    /\ mpc = "header"
    /\ sisso_model' = ModelAfterHeader(HeaderDimension(lines))
    /\ mpc' = IF sisso_model'.err = "" THEN "loop" ELSE "raised"
    /\ iline' = 1
    /\ UNCHANGED <<lines, pdf, pout>>
    /\ UNCHANGED notM

\* lines 273-287, one line
ModelLoopStep ==
    /\ mpc = "loop"
    /\ iline <= Len(lines)
    /\ sisso_model' = ModelLine(sisso_model, lines[iline])
    /\ mpc' = IF sisso_model'.err = "" THEN "loop" ELSE "raised"
    /\ iline' = iline + 1
    /\ UNCHANGED <<lines, pdf, pout>>
    /\ UNCHANGED notM

\* lines 289-299
ModelReturn ==
    /\ mpc = "loop"
    /\ iline > Len(lines)
    /\ sisso_model' = ModelFinish(sisso_model)
    /\ mpc' = IF sisso_model'.err = "" THEN "returned" ELSE "raised"
    /\ UNCHANGED <<lines, iline, pdf, pout>>
    /\ UNCHANGED notM

\* predict(df) on the Model returned
ModelPredict ==
    /\ mpc = "returned"
    /\ \E t \in Tables : pdf' = t /\ pout' = Predict(sisso_model, t)
    /\ mpc' = "predicted"
    /\ UNCHANGED <<lines, iline, sisso_model>>
    /\ UNCHANGED notM

ModelNext ==
    \/ ModelHeader
    \/ ModelLoopStep
    \/ ModelReturn
    \/ ModelPredict

SpecModel == ModelInit /\ [][ModelNext]_vars

-----------------------------------------------------------------------------
(* The texts SISSOParams.from_string is run on: the parameter section of a  *)
(* report, each label on one line, but for a few labels that are missing or *)
(* printed twice.                                                           *)

MaxDeviant == 1    \* labels that are not on exactly one line

ParamToken(var_type, k) ==
    CASE var_type = "int" -> Str(2 + k)
      [] var_type = "float" -> Str(k)
      [] var_type = "list_of_ints" -> Str(10 + k)
      [] var_type = "str" -> IF k = 1 THEN <<"L0">> ELSE <<"RMSE">>
      [] var_type = "list_of_strs" -> IF k = 1 THEN <<"(+)(-)">> ELSE <<"(*)">>
      [] var_type = "str_to_bool" -> IF k = 1 THEN <<".true.">> ELSE <<".false.">>

LParam(entry, k) == <<entry.output_var_str, " ", " ">> \o ParamToken(entry.var_type, k)
LUnits(a, b) == <<" ", " ", a, " ", b>>

RegularEntries == {i \in 1..Len(PARAMS) : PARAMS[i].class_var # "dimension_types"}

\* sets of up to n (entry, number of lines) deviations, one per entry at most
RECURSIVE DevsUpTo(_)
DevsUpTo(n) ==
    IF n = 0 THEN {{}}
    ELSE DevsUpTo(n - 1)
         \cup {D \cup {<<i, c>>} : D \in DevsUpTo(n - 1),
                                   i \in RegularEntries, c \in {0, 2}}

OnePerEntry(D) == \A x \in D : \A y \in D : x[1] = y[1] => x = y

Copies(i, D) == IF <<i, 0>> \in D THEN 0 ELSE IF <<i, 2>> \in D THEN 2 ELSE 1

RECURSIVE ParamSectionFrom(_, _, _)
ParamSectionFrom(i, D, units) ==
    IF i > Len(PARAMS) THEN <<>>
    ELSE (IF PARAMS[i].class_var = "dimension_types"
          THEN <<<<PARAMS[i].output_var_str>>>>
               \o (IF units THEN <<LUnits("1.00", "0.00"), LUnits("0.00", "2.00")>>
                   ELSE <<>>)
          ELSE [k \in 1..Copies(i, D) |-> LParam(PARAMS[i], k)])
         \o ParamSectionFrom(i + 1, D, units)

ParamSection(D, units) == ParamSectionFrom(1, D, units)

ParamTexts ==
    {<<LOther>> \o ParamSection(D, units) \o ending :
        D \in {D \in DevsUpTo(MaxDeviant) : OnePerEntry(D)},
        units \in BOOLEAN, ending \in {<<>>, <<LEmpty>>}}

-----------------------------------------------------------------------------
(* SISSOParams.from_string entry by entry.                                 *)

ParamsInit ==
    /\ IdleD /\ IdleM /\ IdleO /\ IdleE
    /\ ptext \in ParamTexts
    /\ iparam = 1
    /\ kwargs = NoKwargs
    /\ ppc = "loop"
    /\ perr = ""

\* lines 470-475
ParamsUnits ==
    /\ ppc = "loop"
    /\ iparam <= Len(PARAMS)
    /\ PARAMS[iparam].class_var = "dimension_types"
    /\ \E st \in {ParamsEntry([err |-> "", kwargs |-> kwargs], PARAMS[iparam], ptext)} :
          /\ kwargs' = st.kwargs
          /\ perr' = st.err
          /\ ppc' = IF st.err = "" THEN "loop" ELSE "raised"
    /\ iparam' = iparam + 1
    /\ UNCHANGED ptext
    /\ UNCHANGED notP

\* lines 476-479
ParamsField ==
    /\ ppc = "loop"
    /\ iparam <= Len(PARAMS)
    /\ PARAMS[iparam].class_var # "dimension_types"
    /\ \E st \in {ParamsEntry([err |-> "", kwargs |-> kwargs], PARAMS[iparam], ptext)} :
          /\ kwargs' = st.kwargs
          /\ perr' = st.err
          /\ ppc' = IF st.err = "" THEN "loop" ELSE "raised"
    /\ iparam' = iparam + 1
    /\ UNCHANGED ptext
    /\ UNCHANGED notP

\* line 480
ParamsReturn ==
    /\ ppc = "loop"
    /\ iparam > Len(PARAMS)
    /\ ppc' = "returned"
    /\ UNCHANGED <<ptext, iparam, kwargs, perr>>
    /\ UNCHANGED notP

ParamsNext ==
    \/ ParamsUnits
    \/ ParamsField
    \/ ParamsReturn

SpecParams == ParamsInit /\ [][ParamsNext]_vars

-----------------------------------------------------------------------------
(* The reports SISSOOut.from_file is run on: three header lines, the         *)
(* parameter section, some iteration blocks (complete, or lacking a part, or *)
(* cut short), the total time and the closing line, each of them present or  *)
(* not.                                                                      *)

MaxBlocks == 2    \* iteration blocks in a report

LStars == <<"*", "*", "*", "*">>
LVersion ==
    <<" ", "Version SISSO", ".", "3", ".", "0", ".", "2", ",", " ", "June", ",", " ",
      "2", "0", "2", "0", ".">>
LTotal(n) == <<"Total time (second)", ":", " ", " ">> \o Str(n)
LSentinel == <<"Have a nice day !", " ", " ">>

HeaderLines == <<LStars, LStars, LVersion>>

MaxParts == 3     \* components of a version number

\* a version line: " Version SISSO.3.0.2, June, 2020." with the components
\* listed, with or without the blank before and the date after
RECURSIVE VersionParts(_)
VersionParts(parts) ==
    IF parts = <<>> THEN <<>> ELSE <<".">> \o Str(Head(parts)) \o VersionParts(Tail(parts))

LVersionOf(lead, parts, date) ==
    (IF lead THEN <<" ">> ELSE <<>>)
    \o <<"Version SISSO">> \o VersionParts(parts)
    \o (IF date THEN <<",", " ", "June", ",", " ", "2", "0", "2", "0", ".">> ELSE <<>>)

VersionLines ==
    {LVersionOf(lead, parts, date) :
        lead \in BOOLEAN, parts \in SeqsUpTo({0, 3, 12}, MaxParts), date \in BOOLEAN}

BlockNotations ==
    <<<<"(">> \o F1 \o <<"-">> \o F2 \o <<")">>,
      <<"(", "(">> \o F1 \o <<"*">> \o F2 \o <<")", ")", "^", "2">>,
      <<"(">> \o F1 \o <<"+">> \o F2 \o <<")">>,
      <<"(">> \o F2 \o <<"*">> \o F2 \o <<")">>>>

IterBlock(dim, phi, sis, marker) ==
    <<LDim(dim)>>
    \o (IF phi THEN <<LPhi(0, 3), LPhi(1, 10 + dim)>> ELSE <<>>)
    \o (IF sis THEN <<LSis(5 * dim)>> ELSE <<>>)
    \o (IF marker THEN <<LMarker>> ELSE <<>>)
    \o [k \in 1..dim |-> LDesc(k, BlockNotations[k])]
    \o TaskLines(1, 1, dim, FALSE, FALSE)
    \o <<LTimeDI(dim)>>

GoodBlocks == {IterBlock(dim, TRUE, TRUE, TRUE) : dim \in 1..MaxDim}

IterPieces ==
    GoodBlocks
    \cup {IterBlock(1, TRUE, TRUE, FALSE),      \* no descriptor marker
          IterBlock(1, FALSE, FALSE, TRUE),     \* no feature-space and SIS lines
          <<LTimeDI(9)>>,                       \* a DI time report on its own
          <<LDim(1), LOther>>}                  \* a header whose block is cut short

RECURSIVE JoinPieces(_)
JoinPieces(ps) ==
    IF ps = <<>> THEN <<>> ELSE Head(ps) \o <<LOther>> \o JoinPieces(Tail(ps))

ParamSections ==
    {ParamSection(D, TRUE) : D \in {{}, {<<1, 0>>}, {<<1, 2>>}}}

Report(psec, pieces, total, sentinel, newline) ==
    HeaderLines \o psec \o JoinPieces(pieces)
    \o (IF total THEN <<LTotal(7)>> ELSE <<>>)
    \o (IF sentinel THEN <<LSentinel>> ELSE <<>>)
    \o (IF newline THEN <<LEmpty>> ELSE <<>>)

\* a finished report without iteration blocks under a given version line
HeaderReport(header) ==
    <<LStars, LStars, header>> \o ParamSection({}, TRUE)
    \o <<LTotal(7), LSentinel, LEmpty>>

\* every parameter section and every ending with up to one block, and the
\* section that has each label once with up to MaxBlocks blocks, the last line
\* ended by a newline; and the reports under each version line
Reports ==
    {Report(psec, pieces, total, sentinel, newline) :
        psec \in ParamSections, pieces \in SeqsUpTo(IterPieces, 1),
        total \in BOOLEAN, sentinel \in BOOLEAN, newline \in BOOLEAN}
    \cup {Report(ParamSection({}, TRUE), pieces, total, sentinel, TRUE) :
            pieces \in SeqsUpTo(IterPieces, MaxBlocks),
            total \in BOOLEAN, sentinel \in BOOLEAN}
    \cup {HeaderReport(header) : header \in VersionLines}

-----------------------------------------------------------------------------
(* SISSOOut.from_file step by step, then the model and models properties.  *)

OutInit ==
    /\ IdleD /\ IdleM /\ IdleP /\ IdleE
    /\ report \in Reports
    /\ allow_unfinished \in BOOLEAN
    /\ params = NoKwargs
    /\ match = <<>>
    /\ iterations = <<>>
    /\ version = NoVersion
    /\ cpu_time = 0
    /\ opc = "sentinel"
    /\ oerr = ""
    /\ got = NoValue

\* lines 529-536
OutSentinel ==
    /\ opc = "sentinel"
    /\ oerr' = SentinelCheck(report, allow_unfinished)
    /\ opc' = IF oerr' = "" THEN "params" ELSE "raised"
    /\ UNCHANGED <<report, allow_unfinished, params, match, iterations, version,
                   cpu_time, got>>
    /\ UNCHANGED notO

\* line 538
OutParams ==
    /\ opc = "params"
    /\ \E st \in {ParamsFromString(report)} :
          /\ params' = st.kwargs
          /\ oerr' = st.err
          /\ opc' = IF st.err = "" THEN "findall" ELSE "raised"
    /\ UNCHANGED <<report, allow_unfinished, match, iterations, version, cpu_time, got>>
    /\ UNCHANGED notO

\* lines 540-542
OutFindIterations ==
    /\ opc = "findall"
    /\ match' = FindIterations(report, 1)
    /\ opc' = "iterations"
    /\ UNCHANGED <<report, allow_unfinished, params, iterations, version, cpu_time,
                   oerr, got>>
    /\ UNCHANGED notO

\* lines 543-546, one iteration string
OutIteration ==
    /\ opc = "iterations"
    /\ Len(iterations) < Len(match)
    /\ \E r \in {IterationFromString(match[Len(iterations) + 1])} :
          /\ iterations' = IF r.err = "" THEN Append(iterations, r.it) ELSE iterations
          /\ oerr' = r.err
          /\ opc' = IF r.err = "" THEN "iterations" ELSE "raised"
    /\ UNCHANGED <<report, allow_unfinished, params, match, version, cpu_time, got>>
    /\ UNCHANGED notO

\* lines 548-551
OutHeader ==
    /\ opc = "iterations"
    /\ Len(iterations) = Len(match)
    /\ \E h \in {HeaderVersion(report)} :
          /\ version' = h.v
          /\ oerr' = h.err
          /\ opc' = IF h.err = "" THEN "cpu_time" ELSE "raised"
    /\ UNCHANGED <<report, allow_unfinished, params, match, iterations, cpu_time, got>>
    /\ UNCHANGED notO

\* lines 553-559
OutCpuTime ==
    /\ opc = "cpu_time"
    /\ \E t \in {TotalTime(report)} :
          /\ cpu_time' = t.n
          /\ oerr' = t.err
          /\ opc' = IF t.err = "" THEN "returned" ELSE "raised"
    /\ UNCHANGED <<report, allow_unfinished, params, match, iterations, version, got>>
    /\ UNCHANGED notO

\* result.model
AccessModel ==
    /\ opc = "returned"
    /\ \E r \in {OutModel(iterations)} :
          /\ got' = IF r.err = "" THEN r.v ELSE NoValue
          /\ oerr' = r.err
    /\ opc' = "model"
    /\ UNCHANGED <<report, allow_unfinished, params, match, iterations, version,
                   cpu_time>>
    /\ UNCHANGED notO

\* result.models
AccessModels ==
    /\ opc = "returned"
    /\ got' = OutModels(iterations)
    /\ opc' = "models"
    /\ UNCHANGED <<report, allow_unfinished, params, match, iterations, version,
                   cpu_time, oerr>>
    /\ UNCHANGED notO

OutNext ==
    \/ OutSentinel
    \/ OutParams
    \/ OutFindIterations
    \/ OutIteration
    \/ OutHeader
    \/ OutCpuTime
    \/ AccessModel
    \/ AccessModels

SpecOut == OutInit /\ [][OutNext]_vars

-----------------------------------------------------------------------------
(* Claims about the decoder                                                *)

\* the marker string begins and ends with the marker character
MarkerWrapped(rs) == rs # <<>> /\ rs[1] = "#" /\ rs[Len(rs)] = "#"

\* the column an expression denotes on a table, row by row
Expected(e, tbl) == Col([r \in 1..Len(tbl) |-> EvalExpr(e, tbl[r])])

\* C6 (as amended): for every notation over +, -, *, parentheses and the
\* powers ^2, ^3, ^6 whose marker string begins and ends with the marker, the
\* decoded expression evaluated on a table that has the columns gives, on
\* every row, the value of the arithmetic expression computed on that row.
C6_DecodeThenEvaluate ==
    (dpc = "evaluated" /\ expr # NoExpr /\ df = FullTable)
        => dvalue = Expected(expr, df)

\* C6 witness: ((f1-x))^2 was decoded and evaluated on the full table
C6_Witness ==
    /\ dpc = "evaluated"
    /\ expr = Pow(2, Bin("-", Feat(F1), Feat(F2)))
    /\ string = <<"(", "(", "f", "1", "-", "x", ")", ")", "^", "2">>
    /\ df = FullTable
    /\ dvalue.k = "col"
    /\ \E r \in 1..Len(df) : df[r][F1] = 2 /\ df[r][F2] = -1 /\ dvalue.c[r] = 9

\* C6 as stated: every notation over that vocabulary decodes and evaluates to
\* the value of its expression (also a bare f1+x, which has no enclosing
\* operator).
C6_Original ==
    (expr # NoExpr /\ dpc \in {"raised", "evaluated"}
        /\ (dpc = "evaluated" => df = FullTable))
        => (dpc = "evaluated" /\ dvalue = Expected(expr, FullTable))

\* C7: whenever the marker string does not both begin and end with the
\* marker character (the empty notation included), decoding ends in the
\* decode error ValueError and no expression is produced.
C7_UnwrappedIsValueError ==
    (dpc \notin {"replace", "check"} /\ ~MarkerWrapped(replaced_string))
        => (dpc = "raised" /\ derr = "ValueError" /\ evalstring = <<>>)


-----------------------------------------------------------------------------
(* Claims about SISSOModel                                                 *)

\* the Model invariant of the data model: one coefficient row per intercept,
\* one column per descriptor, as many descriptors as the dimension
WellShaped(m) ==
    /\ Len(m.descriptors) = m.dimension
    /\ Len(m.coefficients) = Len(m.intercept)
    /\ \A t \in 1..Len(m.coefficients) : Len(m.coefficients[t]) = m.dimension

\* the value of one descriptor on one row
RowValue(d, row) == PyEval(d.evalstring, <<row>>).c[1]

RECURSIVE WeightedSum(_, _, _, _)
WeightedSum(m, t, row, d) ==
    IF d > Len(m.descriptors) THEN 0
    ELSE m.coefficients[t][d] * RowValue(m.descriptors[d], row)
         + WeightedSum(m, t, row, d + 1)

PredictionIsWeightedSum ==
    /\ pout.k = "array"
    /\ pout.shape = <<Len(pdf), Len(sisso_model.intercept)>>
    /\ Len(pout.a) = Len(pdf)
    /\ \A r \in 1..Len(pdf) :
          /\ Len(pout.a[r]) = Len(sisso_model.intercept)
          /\ \A t \in 1..Len(sisso_model.intercept) :
                pout.a[r][t] = sisso_model.intercept[t]
                               + WeightedSum(sisso_model, t, pdf[r], 1)

\* C8 (as amended): for a Model with at least one task that satisfies the
\* Model invariant, predict on a table that has the columns returns an array
\* of shape [n_rows][n_tasks] whose entry for row r and task t is
\* intercept[t] plus the sum over the descriptors d of coefficients[t][d]
\* times the value of descriptor d on row r.
C8_Predict ==
    (mpc = "predicted" /\ pdf = FullTable /\ WellShaped(sisso_model)
        /\ Len(sisso_model.intercept) >= 1)
        => PredictionIsWeightedSum

\* C8 witness: a two-task, two-descriptor Model predicted on the full table
C8_Witness ==
    /\ mpc = "predicted"
    /\ pdf = FullTable
    /\ WellShaped(sisso_model)
    /\ sisso_model.dimension = 2
    /\ Len(sisso_model.intercept) = 2
    /\ sisso_model.descriptors[1].descriptor_string # sisso_model.descriptors[2].descriptor_string
    /\ pout.k = "array"
    /\ \E r \in 1..Len(pdf) : pout.a[r][1] # pout.a[r][2]

\* C8 as stated: the same for every Model that satisfies the Model invariant,
\* a Model with no task included.
C8_Original ==
    (mpc = "predicted" /\ pdf = FullTable /\ WellShaped(sisso_model))
        => PredictionIsWeightedSum

\* a line of the form <id>:[...]
IsDescriptorLine(line) ==
    /\ Has(line, "[")
    /\ line[Len(line)] = "]"
    /\ ToInt(SplitOn(line, ":")[1]).ok

HasMarker(ls) == \E i \in 1..Len(ls) : Has(ls[i], "@@@descriptor")

\* the descriptor lines that follow the marker line at position i
RECURSIVE DescriptorRun(_, _)
DescriptorRun(ls, i) ==
    IF i + 1 <= Len(ls) /\ ls[i + 1] # <<>> /\ IsDescriptorLine(ls[i + 1])
    THEN 1 + DescriptorRun(ls, i + 1)
    ELSE 0

\* C9: a block whose header declares dimension N and whose descriptor block
\* supplies fewer than N descriptor lines never yields a Model.
C9_TooFewDescriptorsRaises ==
    (mpc \in {"returned", "predicted"})
        => ~ \E i \in 1..Len(lines) :
                /\ Has(lines[i], "@@@descriptor")
                /\ DescriptorRun(lines, i) < HeaderDimension(lines).n

\* C10: a block without a descriptor-block marker line fails with
\* "Descriptor not found", whatever other lines it holds; no Model is returned.
C10_NoMarkerRaises ==
    (mpc \notin {"header", "loop"} /\ ~HasMarker(lines))
        => (mpc = "raised" /\ sisso_model.err = "ValueError: Descriptor not found")

\* C10 witness: a block with coefficient, intercept and RMSE lines and no
\* marker line was read to its end and raised
C10_Witness ==
    /\ mpc = "raised"
    /\ ~HasMarker(lines)
    /\ iline > Len(lines)
    /\ Len(sisso_model.coefficients) = 2
    /\ Len(sisso_model.intercept) = 2
    /\ Len(sisso_model.rmse) = 2
    /\ sisso_model.err = "ValueError: Descriptor not found"

-----------------------------------------------------------------------------
(* Claims about SISSOParams                                                *)

\* the lines of a text that hold a label and end with a newline
LinesWith(ls, label) == {i \in 1..(Len(ls) - 1) : HasSub(ls[i], label)}

\* C2: for every table entry other than the physical-units one, the field is
\* set if and only if its label is on exactly one line of the text, its value
\* then being the last token of that line coerced by the entry's type; with
\* no such line, or two or more, the field is left unset and from_string does
\* not raise.
C2_SetIffExactlyOneLine ==
    /\ ppc # "raised"
    /\ ppc = "returned" =>
          \A i \in RegularEntries :
             LET on == LinesWith(ptext, <<PARAMS[i].output_var_str>>) IN
             /\ (PARAMS[i].class_var \in DOMAIN kwargs) <=> (Cardinality(on) = 1)
             /\ Cardinality(on) = 1 =>
                   kwargs[PARAMS[i].class_var]
                       = Coerce(PARAMS[i].var_type,
                                LastToken(ptext[CHOOSE j \in on : TRUE])).v

-----------------------------------------------------------------------------
(* Claims about SISSOOut                                                   *)

HasSentinel(ls) == \E i \in 1..Len(ls) : HasSub(ls[i], Sentinel)
HasTotalTime(ls) == \E i \in 1..Len(ls) : HasSub(ls[i], TotalTimeLabel)

Returned == opc \in {"returned", "model", "models"}

\* the reports that are complete in every part: each label on one line, whole
\* iteration blocks, the total time, every line ended by a newline
WholeReports(total, sentinel) ==
    {Report(ParamSection({}, TRUE), pieces, total, sentinel, TRUE) :
        pieces \in SeqsUpTo(GoodBlocks, MaxBlocks)}

UnfinishedError == "ValueError: SISSO.out should end with 'Have a nave day !'"

\* C1: for a report without the closing line 'Have a nice day !', from_file
\* with allow_unfinished false raises before anything is parsed; with
\* allow_unfinished true, and the report complete in every other part, it
\* does not raise and returns a result.
C1_UnfinishedReport ==
    ~HasSentinel(report) =>
        /\ (~allow_unfinished /\ opc # "sentinel") =>
              /\ opc = "raised"
              /\ oerr = UnfinishedError
              /\ params = NoKwargs /\ match = <<>> /\ iterations = <<>>
              /\ version = NoVersion /\ cpu_time = 0
        /\ (/\ allow_unfinished
            /\ opc = "raised" \/ Returned
            /\ report \in WholeReports(TRUE, FALSE)) =>
              /\ Returned
              /\ cpu_time = 7
              /\ version.version = PyStrs(<<<<"3">>, <<"0">>, <<"2">>>>)

\* C1 witness: an unfinished report with iteration blocks was parsed to the end
\* with allow_unfinished true
C1_Witness ==
    /\ ~HasSentinel(report)
    /\ allow_unfinished
    /\ report \in WholeReports(TRUE, FALSE)
    /\ opc = "returned"
    /\ Len(iterations) >= 1

\* what the report's text says the iteration blocks are: a block starts at a
\* "Dimension:" line that lies in no earlier block and has a DI time report
\* after it, and ends with the line of the first DI time report from there on
IsTimeLine(ls, i) == i < Len(ls) /\ HasSub(ls[i], TimeDILabel)

BlockStarts(ls) ==
    {b \in 1..Len(ls) :
        /\ HasSub(ls[b], DimensionLabel)
        /\ \E e \in b..Len(ls) : IsTimeLine(ls, e)
        /\ \A a \in 1..(b - 1) :
              HasSub(ls[a], DimensionLabel) => \E e \in a..(b - 1) : IsTimeLine(ls, e)}

BlockEnd(ls, b) ==
    CHOOSE e \in b..Len(ls) :
        IsTimeLine(ls, e) /\ \A h \in b..(e - 1) : ~IsTimeLine(ls, h)

\* the text of the block that starts in line b, split at its newlines
BlockFrom(ls, b) ==
    <<FromLabel(ls[b], DimensionLabel)>>
    \o [k \in 1..(BlockEnd(ls, b) - b) |-> ls[b + k]]
    \o << <<>> >>

\* the blocks of a text, in the order of the text
BlocksAt(ls, starts) ==
    [n \in 1..Cardinality(starts) |->
        BlockFrom(ls, CHOOSE b \in starts : Cardinality({a \in starts : a < b}) = n - 1)]

TextBlocks(ls) == BlocksAt(ls, BlockStarts(ls))

IsBuiltFrom(it, r) == r.err = "" /\ it = r.it

\* its holds the Iterations of the first blocks, of all of them when done
BuiltInOrder(its, blocks, done) ==
    /\ Len(its) <= Len(blocks)
    /\ \A i \in 1..Len(its) : IsBuiltFrom(its[i], IterationFromString(blocks[i]))
    /\ done => Len(its) = Len(blocks)

\* C3: from_file builds one Iteration for each block of the report that runs
\* from a "Dimension:" header to the line of its DI time report, in the order
\* of the text: the i-th Iteration is built from the i-th block, and a result
\* returned for a report with N blocks holds exactly N Iterations.
C3_OneIterationPerBlock == BuiltInOrder(iterations, TextBlocks(report), Returned)

\* C3 witness: a result with two different Iterations, from a report that has
\* lines outside its blocks
C3_Witness ==
    /\ opc = "returned"
    /\ Len(iterations) = 2
    /\ iterations[1] # iterations[2]
    /\ Cardinality(BlockStarts(report)) = 2
    /\ \E i \in 1..Len(report) :
          /\ report[i] = LOther
          /\ \E a \in BlockStarts(report) : BlockEnd(report, a) < i
          /\ \E b \in BlockStarts(report) : i < b

ModelAccessorIsLast ==
    /\ oerr = ""
    /\ iterations # <<>>
    /\ got = iterations[Len(iterations)].sisso_model
    /\ got = ModelFromString(Last(TextBlocks(report)))

ModelsAccessorIsAll ==
    /\ Len(got) = Len(iterations)
    /\ \A i \in 1..Len(iterations) : got[i] = iterations[i].sisso_model

\* C4 (as amended): for a result with at least one Iteration, the model
\* accessor returns the Model of the last Iteration, and for a result with
\* none it raises IndexError; for every result, the models accessor returns
\* the Models of all Iterations in the order of the iterations list, as many
\* as there are Iterations.
C4_Accessors ==
    /\ (opc = "model" /\ iterations # <<>>) => ModelAccessorIsLast
    /\ (opc = "model" /\ iterations = <<>>) => oerr = "IndexError"
    /\ opc = "models" => ModelsAccessorIsAll

\* C4 witness: the model accessor called on a result whose two Iterations hold
\* different Models
C4_Witness ==
    /\ opc = "model"
    /\ Len(iterations) = 2
    /\ iterations[1].sisso_model # iterations[2].sisso_model
    /\ got = iterations[2].sisso_model

\* C4 as stated: the same for every result returned, one without Iterations
\* included.
C4_Original ==
    /\ opc = "model" => ModelAccessorIsLast
    /\ opc = "models" => ModelsAccessorIsAll

\* what the message of an exception says is wrong
MessageNames(e) ==
    CASE e = UnfinishedError -> "Have a nice day !"
      [] e = "ValueError: Descriptor not found" -> "@@@descriptor"
      [] OTHER -> ""

\* C5: for a report with no "Total time (second):" line, complete in every
\* other part, from_file returns no result and raises an error that names the
\* missing total-time line.
C5_MissingTotalTimeNamed ==
    (/\ opc = "raised" \/ Returned
     /\ ~HasTotalTime(report)
     /\ HasSentinel(report) \/ allow_unfinished
     /\ report \in WholeReports(FALSE, TRUE) \cup WholeReports(FALSE, FALSE))
        => (opc = "raised" /\ MessageNames(oerr) = "Total time (second):")

-----------------------------------------------------------------------------
(* The Model invariant                                                     *)

\* C11: every Model returned by SISSOModel.from_string has as many
\* descriptors as its dimension, one coefficient row per intercept, and
\* coefficient rows of the length of its dimension.
C11_ModelInvariant ==
    (mpc \in {"returned", "predicted"}) => WellShaped(sisso_model)

-----------------------------------------------------------------------------
(* SISSOIteration.from_string step by step, on blocks that hold each of   *)
(* the feature-space, SIS-size and DI-time lines no, one or several times. *)

MaxRepeat == 2    \* lines of one kind in a block

\* the feature-space lines of the rungs listed
PhiLines(rungs) == [k \in 1..Len(rungs) |-> LPhi(rungs[k], 10 * k + rungs[k])]

\* n lines of the SIS size, of the DI time, each with its own number
SisLines(n) == [k \in 1..n |-> LSis(5 * k)]
TimeLines(n) == [k \in 1..n |-> LTimeDI(k + 2)]

\* philast: the feature-space lines written after the DI time lines, so that
\* the last of them ends the text when no newline follows
IterText(dim, rungs, nsis, marker, ntime, newline, philast) ==
    <<LDim(dim)>>
    \o (IF philast THEN <<>> ELSE PhiLines(rungs))
    \o SisLines(nsis)
    \o (IF marker THEN <<LMarker>> ELSE <<>>)
    \o [k \in 1..dim |-> LDesc(k, BlockNotations[k])]
    \o TaskLines(1, 1, dim, FALSE, FALSE)
    \o TimeLines(ntime)
    \o (IF philast THEN PhiLines(rungs) ELSE <<>>)
    \o (IF newline THEN <<LEmpty>> ELSE <<>>)

IterTexts ==
    {IterText(dim, rungs, nsis, marker, ntime, newline, philast) :
        dim \in 1..MaxDim, rungs \in SeqsUpTo(0..(MaxRepeat - 1), MaxRepeat),
        nsis \in 0..MaxRepeat, marker \in BOOLEAN, ntime \in 0..MaxRepeat,
        newline \in BOOLEAN, philast \in BOOLEAN}

IterInit ==
    /\ IdleD /\ IdleM /\ IdleP /\ IdleO /\ IdleC /\ IdleF
    /\ istring \in IterTexts
    /\ iteration = NoIteration
    /\ ipc = "model"
    /\ ierr = ""

\* line 349
IterModel ==
    /\ ipc = "model"
    /\ \E m \in {ModelFromString(istring)} :
          /\ iteration' = IF m.err = "" THEN [iteration EXCEPT !.sisso_model = m]
                          ELSE iteration
          /\ ierr' = m.err
          /\ ipc' = IF m.err = "" THEN "feature_spaces" ELSE "raised"
    /\ UNCHANGED istring
    /\ UNCHANGED notI

\* lines 351-355
IterFeatureSpaces ==
    /\ ipc = "feature_spaces"
    /\ \E fs \in {FeatureSpaces(MatchLines(istring, PhiLabel), <<>>)} :
          /\ iteration' = IF fs.err = "" THEN [iteration EXCEPT !.feature_spaces = fs.d]
                          ELSE iteration
          /\ ierr' = fs.err
          /\ ipc' = IF fs.err = "" THEN "SIS_subspace_size" ELSE "raised"
    /\ UNCHANGED istring
    /\ UNCHANGED notI

\* lines 357-359
IterSisSize ==
    /\ ipc = "SIS_subspace_size"
    /\ \E sis \in {FirstMatchNumber(MatchLines(istring, SisLabel))} :
          /\ iteration' = IF sis.err = ""
                          THEN [iteration EXCEPT !.SIS_subspace_size = sis.n]
                          ELSE iteration
          /\ ierr' = sis.err
          /\ ipc' = IF sis.err = "" THEN "cpu_time" ELSE "raised"
    /\ UNCHANGED istring
    /\ UNCHANGED notI

\* lines 361-363
IterCpuTime ==
    /\ ipc = "cpu_time"
    /\ \E cpu \in {FirstMatchNumber(MatchLines(istring, TimeDILabel))} :
          /\ iteration' = IF cpu.err = "" THEN [iteration EXCEPT !.cpu_time = cpu.n]
                          ELSE iteration
          /\ ierr' = cpu.err
          /\ ipc' = IF cpu.err = "" THEN "return" ELSE "raised"
    /\ UNCHANGED istring
    /\ UNCHANGED notI

\* lines 365-371
IterReturn ==
    /\ ipc = "return"
    /\ iteration' = [iteration EXCEPT !.iteration_number = iteration.sisso_model.dimension]
    /\ ipc' = "returned"
    /\ UNCHANGED <<istring, ierr>>
    /\ UNCHANGED notI

IterNext ==
    \/ IterModel
    \/ IterFeatureSpaces
    \/ IterSisSize
    \/ IterCpuTime
    \/ IterReturn

SpecIter == IterInit /\ [][IterNext]_vars

-----------------------------------------------------------------------------
(* Claims about SISSOIteration                                             *)

\* the step-by-step run ends as from_string computed in one piece does
IterAgrees ==
    ipc \in {"returned", "raised"} =>
        /\ IterationFromString(istring).err = ierr
        /\ ipc = "returned" => IterationFromString(istring).it = iteration

\* C12: from_string yields an Iteration only for a block that holds exactly
\* one 'Size of the SIS-selected subspace' line and exactly one
\* 'Time (second) used for this DI:' line; with none, or two or more, of
\* either it raises.
C12_ExactlyOneSisAndTime ==
    ipc = "returned" =>
        /\ Cardinality(LinesWith(istring, SisLabel)) = 1
        /\ Cardinality(LinesWith(istring, TimeDILabel)) = 1

-----------------------------------------------------------------------------
(* Claims about SISSOVersion                                               *)

\* a line without the whitespace around it
Blank == {" ", "\n"}

Trimmed(line) ==
    IF \A i \in 1..Len(line) : line[i] \in Blank THEN <<>>
    ELSE SubSeq(line,
                CHOOSE a \in 1..Len(line) :
                    line[a] \notin Blank /\ \A h \in 1..(a - 1) : line[h] \in Blank,
                CHOOSE b \in 1..Len(line) :
                    line[b] \notin Blank /\ \A h \in (b + 1)..Len(line) : line[h] \in Blank)

\* the text of a line before its first comma
BeforeComma(line) ==
    IF \E i \in 1..Len(line) : line[i] = ","
    THEN SubSeq(line, 1, (CHOOSE i \in 1..Len(line) :
                             line[i] = "," /\ \A h \in 1..(i - 1) : line[h] # ",") - 1)
    ELSE line

\* the components after the first of the text before the first comma
Components(line) == Tail(SplitOn(BeforeComma(line), "."))

\* a list of Python int objects
PyInts(toks) == [i \in 1..Len(toks) |-> [t |-> "int", n |-> ToInt(toks[i]).n]]

VersionBuilt == opc \in {"cpu_time", "returned", "model", "models"}

\* the third line of the file, with the newline that ends it
Line3 == Append(report[3], "\n")

\* what does hold: the components are kept as the text they were written in
VersionIsText ==
    VersionBuilt =>
        /\ version.header_string = Trimmed(Line3)
        /\ version.version = PyStrs(Components(Line3))

\* C13: the Version built from the third line of the report has that line
\* without the whitespace around it as header text, and as version the list
\* of integers read from the components after the first of the text before
\* the first comma, split on periods.
C13_VersionOfThirdLine ==
    VersionBuilt =>
        /\ version.header_string = Trimmed(Line3)
        /\ version.version = PyInts(Components(Line3))

-----------------------------------------------------------------------------
(* The kinds of error from_file ends in                                    *)

\* the exception class of an error, the part a caller can branch on
ErrorKind(e) ==
    CASE e = UnfinishedError -> "ValueError"
      [] e = "ValueError: Descriptor not found" -> "ValueError"
      [] e = "ValueError" -> "ValueError"
      [] e = "IndexError" -> "IndexError"
      [] e = "StopIteration" -> "StopIteration"
      [] e = "TypeError: 'NoneType' object is not subscriptable" -> "TypeError"
      [] OTHER -> "none"

\* C14: the error raised for a report without the completion sentinel differs
\* in kind from every error raised for a report that is broken in its
\* structure (no descriptor block, no SIS-size or DI-time line, no total-time
\* line), so that a caller can tell an unfinished run from a corrupt report.
C14_UnfinishedIsDistinct ==
    (opc = "raised" /\ oerr # UnfinishedError)
        => ErrorKind(oerr) # ErrorKind(UnfinishedError)

-----------------------------------------------------------------------------
(* Further claims about the decoder                                        *)

Decoded == dpc \in {"decoded", "evaluated"}

\* C15: a Descriptor that was constructed has a decoded expression that
\* refers to at least one named feature: no notation decodes with an empty
\* list of feature occurrences.
C15_AtLeastOneFeature ==
    Decoded => (features_in_string # <<>> /\ inputs # <<>>)

-----------------------------------------------------------------------------
(* Several calls of SISSOOut.from_file at once.  A call shares with the    *)
(* others the file system and nothing else: string, params, iterations,    *)
(* version and cpu_time are locals of the call.  from_file opens its file  *)
(* twice, at line 528 for the text and at line 548 for the header lines;   *)
(* the calls interleave between any two such steps.                        *)

MaxCalls == 2     \* calls of from_file in flight

Calls == 1..MaxCalls

Paths == {"SISSO.out", "run2/SISSO.out"}

\* a finished report of two iterations, and an unfinished one of another
\* version of the solver with one iteration
ParFiles ==
    [path \in Paths |->
        IF path = "SISSO.out"
        THEN Report(ParamSection({}, TRUE),
                    <<IterBlock(1, TRUE, TRUE, TRUE), IterBlock(2, TRUE, TRUE, TRUE)>>,
                    TRUE, TRUE, TRUE)
        ELSE <<LStars, LStars, LVersionOf(FALSE, <<3, 12>>, TRUE)>>
             \o ParamSection({}, TRUE)
             \o JoinPieces(<<IterBlock(1, TRUE, TRUE, TRUE)>>)
             \o <<LTotal(4), LEmpty>>]

\* a slip in lines 528 and 548: the file opened is one kept from another call
OpenFile_Shared(fs, path) == fs[CHOOSE q \in DOMAIN fs : TRUE]

\* open(filepath).read()
OpenFile(fs, path) == fs[path]

\* lines 543-546 as a whole: [err, its]
RECURSIVE IterationsFrom(_, _), IterationsNext(_, _, _)
IterationsFrom(ms, acc) ==
    IF ms = <<>> THEN [err |-> "", its |-> acc]
    ELSE IterationsNext(ms, acc, IterationFromString(Head(ms)))

IterationsNext(ms, acc, r) ==
    IF r.err # "" THEN [err |-> r.err, its |-> acc]
    ELSE IterationsFrom(Tail(ms), Append(acc, r.it))

\* lines 531-546 on the local string: [err, params, iterations]
ParseIterations(kw, r) ==
    [err |-> r.err, params |-> kw, iterations |-> IF r.err = "" THEN r.its ELSE <<>>]

ParseParams(ls, st) ==
    IF st.err # "" THEN [err |-> st.err, params |-> NoKwargs, iterations |-> <<>>]
    ELSE ParseIterations(st.kwargs, IterationsFrom(FindIterations(ls, 1), <<>>))

ParseChecked(ls, e) ==
    IF e # "" THEN [err |-> e, params |-> NoKwargs, iterations |-> <<>>]
    ELSE ParseParams(ls, ParamsFromString(ls))

ParseString(ls, allow) == ParseChecked(ls, SentinelCheck(ls, allow))

NoResult ==
    [params |-> NoKwargs, iterations |-> <<>>, version |-> NoVersion, cpu_time |-> 0]

ParInit ==
    /\ IdleD /\ IdleM /\ IdleP /\ IdleO /\ IdleI /\ IdleF
    /\ files = ParFiles
    /\ cfile \in [Calls -> Paths]
    /\ cflag \in [Calls -> BOOLEAN]
    /\ cstring = [p \in Calls |-> <<>>]
    /\ cresult = [p \in Calls |-> NoResult]
    /\ cpc = [p \in Calls |-> "read"]
    /\ cerr = [p \in Calls |-> ""]

\* lines 528-529
ParRead(p) ==
    /\ cpc[p] = "read"
    /\ cstring' = [cstring EXCEPT ![p] = OpenFile(files, cfile[p])]
    /\ cpc' = [cpc EXCEPT ![p] = "parse"]
    /\ UNCHANGED <<files, cfile, cflag, cresult, cerr>>
    /\ UNCHANGED notC

\* lines 531-546
ParParse(p) ==
    /\ cpc[p] = "parse"
    /\ \E r \in {ParseString(cstring[p], cflag[p])} :
          /\ cresult' = [cresult EXCEPT ![p].params = r.params,
                                        ![p].iterations = r.iterations]
          /\ cerr' = [cerr EXCEPT ![p] = r.err]
          /\ cpc' = [cpc EXCEPT ![p] = IF r.err = "" THEN "header" ELSE "raised"]
    /\ UNCHANGED <<files, cfile, cflag, cstring>>
    /\ UNCHANGED notC

\* lines 548-551: the file is opened again
ParHeader(p) ==
    /\ cpc[p] = "header"
    /\ \E h \in {HeaderVersion(OpenFile(files, cfile[p]))} :
          /\ cresult' = [cresult EXCEPT ![p].version = h.v]
          /\ cerr' = [cerr EXCEPT ![p] = h.err]
          /\ cpc' = [cpc EXCEPT ![p] = IF h.err = "" THEN "cpu_time" ELSE "raised"]
    /\ UNCHANGED <<files, cfile, cflag, cstring>>
    /\ UNCHANGED notC

\* lines 553-559
ParCpuTime(p) ==
    /\ cpc[p] = "cpu_time"
    /\ \E t \in {TotalTime(cstring[p])} :
          /\ cresult' = [cresult EXCEPT ![p].cpu_time = t.n]
          /\ cerr' = [cerr EXCEPT ![p] = t.err]
          /\ cpc' = [cpc EXCEPT ![p] = IF t.err = "" THEN "returned" ELSE "raised"]
    /\ UNCHANGED <<files, cfile, cflag, cstring>>
    /\ UNCHANGED notC

ParNext ==
    \/ \E p \in Calls : ParRead(p)
    \/ \E p \in Calls : ParParse(p)
    \/ \E p \in Calls : ParHeader(p)
    \/ \E p \in Calls : ParCpuTime(p)

SpecPar == ParInit /\ [][ParNext]_vars

-----------------------------------------------------------------------------
(* Claims about calls at once                                              *)

\* what one call of from_file on a text gives when it runs alone
AloneTimed(r, h, t) ==
    IF t.err # "" THEN [err |-> t.err, result |-> [r EXCEPT !.version = h.v]]
    ELSE [err |-> "", result |-> [r EXCEPT !.version = h.v, !.cpu_time = t.n]]

AloneHeaded(text, r, h) ==
    IF h.err # "" THEN [err |-> h.err, result |-> r]
    ELSE AloneTimed(r, h, TotalTime(text))

AloneParsed(text, r) ==
    IF r.err # ""
    THEN [err |-> r.err,
          result |-> [NoResult EXCEPT !.params = r.params, !.iterations = r.iterations]]
    ELSE AloneHeaded(text,
                     [NoResult EXCEPT !.params = r.params, !.iterations = r.iterations],
                     HeaderVersion(text))

Alone(text, allow) == AloneParsed(text, ParseString(text, allow))

Ended(p) == cpc[p] \in {"returned", "raised"}

\* C16: whatever the order in which the steps of the calls are taken, the
\* result or error of each call is the one its own report text and flag give
\* to a call that runs alone, every part of a result comes from the text of
\* the call's own file, and no call changes the files the others read.
C16_CallsDoNotInterfere ==
    /\ files = ParFiles
    /\ \A p \in Calls :
          /\ cpc[p] # "read" => cstring[p] = ParFiles[cfile[p]]
          /\ Ended(p) =>
                /\ cerr[p] = Alone(ParFiles[cfile[p]], cflag[p]).err
                /\ cresult[p] = Alone(ParFiles[cfile[p]], cflag[p]).result

\* C16 witness: two calls on different files have both returned, and their
\* results differ in the iterations, the version and the total time
C16_Witness ==
    /\ cfile[1] # cfile[2]
    /\ cpc[1] = "returned" /\ cpc[2] = "returned"
    /\ Len(cresult[1].iterations) # Len(cresult[2].iterations)
    /\ cresult[1].version # cresult[2].version
    /\ cresult[1].cpu_time # cresult[2].cpu_time

-----------------------------------------------------------------------------
(* SISSORegressor.fit, the run directory (sklearn.py, lines 258-282).      *)
(* The regressor is constructed with run_dir None or with a name, and fit  *)
(* is called on it several times; SISSO may fail in any of the calls.      *)

MaxFits == 3      \* calls of fit on one regressor
MaxTemp == 4      \* names mkdtemp can give

TempDirs == {TempDir(n) : n \in 1..MaxTemp}

\* tempfile.mkdtemp: the names it can return, those of no existing directory
MkdtempNames(existing) == TempDirs \ existing

\* lines 259-266: the values of self.run_dir after them, and whether the
\* directory was created by them
SetRunDir(cur, existing) ==
    IF cur = NoneDir
    THEN {[run_dir |-> d, created |-> TRUE] : d \in MkdtempNames(existing)}
    ELSE {[run_dir |-> cur, created |-> cur \notin existing]}

FitInit ==
    /\ IdleD /\ IdleM /\ IdleP /\ IdleO /\ IdleI /\ IdleC
    /\ arg_run_dir \in {NoneDir, UserDir}
    /\ run_dir = arg_run_dir
    /\ clean_run_dir \in BOOLEAN
    /\ dirs \in {{}} \cup {{d} : d \in TempDirs \cup {UserDir}}
    /\ fit_dirs = <<>>
    /\ fpc = "idle"

\* lines 259-266
FitSetRunDir ==
    /\ fpc = "idle"
    /\ Len(fit_dirs) < MaxFits
    /\ \E r \in SetRunDir(run_dir, dirs) :
          /\ run_dir' = r.run_dir
          /\ dirs' = dirs \cup {r.run_dir}
          /\ fit_dirs' = Append(fit_dirs, [dir |-> r.run_dir, created |-> r.created])
    /\ fpc' = "run"
    /\ UNCHANGED <<arg_run_dir, clean_run_dir>>
    /\ UNCHANGED notF

\* lines 267-275: SISSO runs in the directory and SISSO.out is read
FitRun ==
    /\ fpc = "run"
    /\ fpc' = "clean"
    /\ UNCHANGED <<arg_run_dir, run_dir, clean_run_dir, dirs, fit_dirs>>
    /\ UNCHANGED notF

\* lines 267-275 raising: the job or the parse of SISSO.out fails
FitRaise ==
    /\ fpc = "run"
    /\ fpc' = "idle"
    /\ UNCHANGED <<arg_run_dir, run_dir, clean_run_dir, dirs, fit_dirs>>
    /\ UNCHANGED notF

\* lines 278-282
FitClean ==
    /\ fpc = "clean"
    /\ dirs' = IF clean_run_dir THEN dirs \ {run_dir} ELSE dirs
    /\ fpc' = "idle"
    /\ UNCHANGED <<arg_run_dir, run_dir, clean_run_dir, fit_dirs>>
    /\ UNCHANGED notF

FitNext ==
    \/ FitSetRunDir
    \/ FitRun
    \/ FitRaise
    \/ FitClean

SpecFit == FitInit /\ [][FitNext]_vars

-----------------------------------------------------------------------------
(* Claims about SISSORegressor.fit                                         *)

\* C17: for a regressor constructed with run_dir None, every call of fit runs
\* SISSO in a directory that the call itself created and that no earlier call
\* of fit on the regressor used.
C17_FreshRunDirPerFit ==
    arg_run_dir = NoneDir =>
        /\ \A i \in 1..Len(fit_dirs) : fit_dirs[i].created
        /\ \A i \in 1..Len(fit_dirs) : \A j \in 1..Len(fit_dirs) :
              i # j => fit_dirs[i].dir # fit_dirs[j].dir

\* the recognized tokens, as a set
Tokens ==
    {Ch("exp(-"), Ch("exp("), Ch("sin("), Ch("cos("), Ch("sqrt("), Ch("cbrt("),
     Ch("log("), Ch("abs("), Ch("scd("), Ch(")^-1"), Ch(")^2"), Ch(")^3"), Ch(")^6"),
     <<"+">>, <<"-">>, <<"*">>, <<"/">>, <<"(">>, <<")">>}

\* token tok is written in s from character i + 1 on
OccursAt(s, i, tok) ==
    /\ i + Len(tok) <= Len(s)
    /\ \A k \in 1..Len(tok) : s[i + k] = tok[k]

Replaced == dpc \notin {"idle", "replace"}

\* C18: the marker string is as long as the notation, holds at every
\* position the marker or the notation's character, and has markers at all
\* the characters of every occurrence of a recognized token in the notation,
\* those of ')^2', ')^3', ')^6', ')^-1' and 'exp(-' included.
C18_MarkerString ==
    Replaced =>
        /\ Len(replaced_string) = Len(string)
        /\ \A i \in 1..Len(string) :
              replaced_string[i] = "#" \/ replaced_string[i] = string[i]
        /\ \A tok \in Tokens : \A i \in 0..(Len(string) - 1) :
              OccursAt(string, i, tok)
                  => \A k \in 1..Len(tok) : replaced_string[i + k] = "#"

\* C18 witness: the marker string of (exp(-f1))^-1
C18_Witness ==
    /\ Replaced
    /\ string = <<"(", "e", "x", "p", "(", "-", "f", "1", ")", ")", "^", "-", "1">>
    /\ replaced_string = <<"#", "#", "#", "#", "#", "#", "f", "1", "#", "#", "#", "#", "#">>


-----------------------------------------------------------------------------
(* Claim C19: the feature occurrences and the distinct names (lines 140-155) *)

\* the maximal runs of characters other than the marker in rs, as pairs of
\* 0-based offsets <<first, one past the last>>
Runs(rs) ==
    {<<a, b>> \in (0..Len(rs)) \X (0..Len(rs)) :
        /\ a < b
        /\ \A k \in (a + 1)..b : rs[k] # "#"
        /\ (a = 0 \/ rs[a] = "#")
        /\ (b = Len(rs) \/ rs[b + 1] = "#")}

\* the index in fs of the first occurrence of the name
FirstSeen(fs, name) ==
    CHOOSE k \in 1..Len(fs) :
        /\ fs[k].featname = name
        /\ \A j \in 1..(k - 1) : fs[j].featname # name

\* C19: after a successful decoding the recorded occurrences are the maximal
\* runs of non-marker characters of the marker string, one record per run,
\* from left to right without overlap, each named by the notation's text at
\* its offsets; inputs holds each distinct name once, in the order in which
\* the names first occur.
C19_FeatureOccurrences ==
    Decoded =>
        /\ {<<features_in_string[k].istart, features_in_string[k].iend>> :
               k \in 1..Len(features_in_string)} = Runs(replaced_string)
        /\ Len(features_in_string) = Cardinality(Runs(replaced_string))
        /\ \A k \in 1..Len(features_in_string) :
              /\ features_in_string[k].istart < features_in_string[k].iend
              /\ features_in_string[k].featname
                     = Slice(string, features_in_string[k].istart,
                             features_in_string[k].iend)
              /\ k < Len(features_in_string)
                     => features_in_string[k].iend
                            < features_in_string[k + 1].istart
        /\ {inputs[k] : k \in 1..Len(inputs)}
               = {features_in_string[k].featname :
                      k \in 1..Len(features_in_string)}
        /\ \A i, j \in 1..Len(inputs) :
              i < j => FirstSeen(features_in_string, inputs[i])
                           < FirstSeen(features_in_string, inputs[j])

\* C19 witness: a decoded notation that names one feature twice and another
\* feature after it
C19_Witness ==
    /\ Decoded
    /\ Len(features_in_string) = 3
    /\ features_in_string[1].featname = features_in_string[2].featname
    /\ Len(inputs) = 2
    /\ inputs[2] = features_in_string[3].featname


-----------------------------------------------------------------------------
(* Claim C20: the decoded expression (lines 157-184)                       *)

\* the longest recognized token written in s from character i + 1 on, or <<>>
TokenAt(s, i) ==
    IF \E tok \in Tokens : OccursAt(s, i, tok)
    THEN CHOOSE tok \in Tokens :
             /\ OccursAt(s, i, tok)
             /\ \A other \in Tokens :
                   OccursAt(s, i, other) => Len(other) <= Len(tok)
    ELSE <<>>

\* how an operator token is spelled in the expression that is evaluated
Spelling(tok) ==
    IF tok \in {Ch("exp(-"), Ch("exp("), Ch("sin("), Ch("cos("), Ch("sqrt("),
                Ch("cbrt("), Ch("log("), Ch("abs(")}
    THEN Ch("np.") \o tok
    ELSE IF tok \in {Ch(")^-1"), Ch(")^2"), Ch(")^3"), Ch(")^6")}
    THEN <<")", "*", "*">> \o SubSeq(tok, 3, Len(tok))
    ELSE tok

\* a feature name as a column lookup; nothing for no name
Lookup(name) ==
    IF name = <<>> THEN <<>> ELSE Ch("df['") \o name \o Ch("']")

\* the notation read from left to right: tokens respelled, the characters
\* between them gathered into names
RECURSIVE RespellFrom(_, _, _)
RespellFrom(s, i, name) ==
    IF i >= Len(s) THEN Lookup(name)
    ELSE IF TokenAt(s, i) # <<>>
    THEN Lookup(name) \o Spelling(TokenAt(s, i))
             \o RespellFrom(s, i + Len(TokenAt(s, i)), <<>>)
    ELSE RespellFrom(s, i + 1, Append(name, s[i + 1]))

Respelled(s) == RespellFrom(s, 0, <<>>)

RECURSIVE CountOf(_, _)
CountOf(s, c) ==
    IF s = <<>> THEN 0
    ELSE (IF Head(s) = c THEN 1 ELSE 0) + CountOf(Tail(s), c)

RECURSIVE CountInNames(_, _)
CountInNames(fs, c) ==
    IF fs = <<>> THEN 0
    ELSE CountOf(Head(fs).featname, c) + CountInNames(Tail(fs), c)

\* C20 as stated: the decoded expression is the notation with every feature
\* occurrence as a column lookup and every operator token in its evaluated
\* spelling (np. once before sin(, cos(, exp(, log(, sqrt(, cbrt(, abs(;
\* ')^k' as ')**k'; scd( and the other tokens as they are), and no '^' remains
\* in it.
C20_Original ==
    Decoded =>
        /\ evalstring = Respelled(string)
        /\ CountOf(evalstring, "^") = 0

\* C20, amended: the same, where the only '^' that remain are those of the
\* feature names inside the column lookups.
C20_DecodedExpression ==
    Decoded =>
        /\ evalstring = Respelled(string)
        /\ CountOf(evalstring, "^") = CountInNames(features_in_string, "^")

\* C20 witness: (exp(-f1))^-1 decoded to (np.exp(-df['f1']))**-1
C20_Witness ==
    /\ Decoded
    /\ string = <<"(">> \o Ch("exp(-") \o F1 \o <<")">> \o Ch(")^-1")
    /\ evalstring = <<"(">> \o Ch("np.") \o Ch("exp(-") \o Ch("df['") \o F1
                        \o Ch("']") \o <<")">> \o Ch(")**-1")


-----------------------------------------------------------------------------
(* Claim C21: the feature spaces of an iteration (lines 351-355)           *)

\* the lines of the block that report a feature space, in order: all of them,
\* and those that a newline follows
ReportingLines(ls) == SelectSeq(ls, LAMBDA line : HasSub(line, PhiLabel))
EndedLines(ls) ==
    SelectSeq(SubSeq(ls, 1, Len(ls) - 1), LAMBDA line : HasSub(line, PhiLabel))

\* the rung label of a line: its second-to-last token without its last character
RungLabel(line) ==
    SubSeq(SplitWs(line)[Len(SplitWs(line)) - 1], 1,
           Len(SplitWs(line)[Len(SplitWs(line)) - 1]) - 1)

\* the count of a line: its last token as an integer
RungCount(line) == ToInt(SplitWs(line)[Len(SplitWs(line))]).n

\* the pair that a line stands for
PairOf(line) == [k |-> RungLabel(line), v |-> RungCount(line)]

\* the place in ms of the first, of the last line with the label
FirstWith(ms, label) ==
    CHOOSE i \in 1..Len(ms) :
        RungLabel(ms[i]) = label /\ \A h \in 1..(i - 1) : RungLabel(ms[h]) # label
LastWith(ms, label) ==
    CHOOSE i \in 1..Len(ms) :
        RungLabel(ms[i]) = label /\ \A h \in (i + 1)..Len(ms) : RungLabel(ms[h]) # label

\* fs is the pairs of the lines ms, one entry per line, in the lines' order
OnePairPerLine(fs, ms) ==
    /\ Len(fs) = Len(ms)
    /\ \A i \in 1..Len(ms) : fs[i] = PairOf(ms[i])

\* fs is the mapping built from the lines ms: one entry per distinct label, in
\* the order in which the labels first appear, each with the count of the last
\* line that has the label
MappingOfLines(fs, ms) ==
    /\ {fs[i].k : i \in 1..Len(fs)} = {RungLabel(ms[i]) : i \in 1..Len(ms)}
    /\ \A i, j \in 1..Len(fs) : i < j => FirstWith(ms, fs[i].k) < FirstWith(ms, fs[j].k)
    /\ \A i \in 1..Len(fs) : fs[i].v = RungCount(ms[LastWith(ms, fs[i].k)])

DistinctLabels(ms) ==
    \A i, j \in 1..Len(ms) : i # j => RungLabel(ms[i]) # RungLabel(ms[j])

\* C21 as stated: in the Iteration that from_string returns, feature_spaces
\* holds exactly one (rung_label, count) pair for every line of the block
\* that reports a feature space, as many entries as there are such lines, in
\* the order of the lines.
C21_Original ==
    ipc = "returned" => OnePairPerLine(iteration.feature_spaces, ReportingLines(istring))

\* C21, amended: over the reporting lines that a newline follows,
\* feature_spaces holds one entry per distinct rung label, in the order in
\* which the labels first appear, with the count of the last line of that
\* label; when the labels are pairwise distinct that is one pair per line, in
\* the order of the lines.
C21_FeatureSpaces ==
    ipc = "returned" =>
        /\ MappingOfLines(iteration.feature_spaces, EndedLines(istring))
        /\ DistinctLabels(EndedLines(istring))
               => OnePairPerLine(iteration.feature_spaces, EndedLines(istring))

\* C21 witness: an Iteration returned for a block whose two feature-space
\* lines are those of rung 1 and then rung 0
C21_Witness ==
    /\ ipc = "returned"
    /\ Len(EndedLines(istring)) = 2
    /\ iteration.feature_spaces
           = <<[k |-> <<"phi", "0", "1">>, v |-> 11], [k |-> <<"phi", "0", "0">>, v |-> 20]>>

=============================================================================
